---- MODULE Spec2Model ----
(***************************************************************************)
(* ANetworkSession (native/wifi-display/ANetworkSession.cpp): the network  *)
(* session multiplexer of the Wi-Fi Display stack.  The engine owns a map  *)
(* of sessions, a next-ID counter, a wake pipe and one I/O thread; control *)
(* threads create, destroy and feed sessions under the engine mutex.       *)
(***************************************************************************)
EXTENDS Integers, Sequences, FiniteSets, TLC

VARIABLES
  mSessions,       \* KeyedVector<int32_t, sp<Session>>: session ID -> Session
  mNextSessionID,  \* the next-ID counter
  mThread,         \* TRUE while the NetworkThread exists
  mPipeFd,         \* <<read end, write end>> of the wake pipe, <<-1, -1>> if none
  pipeBytes,       \* bytes written to the wake pipe and not yet read
  openFds,         \* descriptors currently open in the process
  pc,              \* position of the I/O thread in threadLoop
  rs,              \* fd_set rs of threadLoop
  ws,              \* fd_set ws of threadLoop
  res,             \* select's result, counted down by the dispatch loop
  idx,             \* index i of the dispatch loop (sessions still to visit)
  sessionsToAdd,   \* accepted children staged during the dispatch loop
  aborted,         \* a CHECK failed: the process has aborted
  ret,             \* what the control-API call made by this step returned
  posted,          \* the notifications posted by this step, in order
  io,              \* the last socket call made by this step and its errno (0: none)
  req,             \* the (data, size) this step's sendRequest call was given
  issued,          \* session IDs in the order Session objects were constructed
  destroyed,       \* IDs for which destroySession returned OK
  tx,              \* payloads handed to sendRequest on the framed connection
  wire,            \* bytes sent on the framed connection and not yet received
  rx,              \* payloads of the Datagram notifications of the receiver
  mExitPending,    \* the I/O thread has been asked to exit (Thread::requestExit)
  writer,          \* the control call blocked in interrupt()'s write, holding mLock
  stopping,        \* position of the control thread inside stop()
  overrun          \* bytes outside a datagram's buffer have been read or written

vars == <<mSessions, mNextSessionID, mThread, mPipeFd, pipeBytes, openFds, pc, rs, ws, res, idx, sessionsToAdd, aborted, ret, posted, io, req, issued, destroyed, tx, wire, rx, mExitPending, writer, stopping, overrun>>

engineVars == <<mNextSessionID, mThread, mPipeFd, pipeBytes, openFds>>
loopVars == <<pc, rs, ws, res, idx, sessionsToAdd>>
stopVars == <<mExitPending, writer, stopping>>
heapVars == <<overrun>>
frameVars == <<tx, wire, rx, stopVars, heapVars>>
quietVars == <<req, tx, wire, rx, stopVars, heapVars>>

----------------------------------------------------------------------------
(* Program constants *)

OK == 0
ENOENT == 2
EAGAIN == 11
EMFILE == 24
ECONNRESET == 104
ECONNREFUSED == 111
HOST_NOT_FOUND == 1
ENOSYS == 38
INVALID_OPERATION == -ENOSYS

\* ANetworkSession.h is not part of the sources: NotificationReason lists
\* kWhatError first, so the enumerator's value is 0.
kWhatError == 0

\* a limit one too large: CHECK_LT(size, 65537)
kPrefixLimitOffByOne == 65535 + 1

\* CHECK_LE(size, 65535)
kMaxPrefixedSize == 65535
kRecvChunk == 512
kDollar == 36
kRtpVersionByte == 128
kRtpPayloadTypeTS == 33

CONNECTING == "CONNECTING"
CONNECTED == "CONNECTED"
LISTENING_RTSP == "LISTENING_RTSP"
LISTENING_TCP_DGRAMS == "LISTENING_TCP_DGRAMS"
DATAGRAM == "DATAGRAM"

kModeCreateUDPSession == "UDPSession"
kModeCreateTCPDatagramSessionPassive == "TCPDatagramSessionPassive"
kModeCreateTCPDatagramSessionActive == "TCPDatagramSessionActive"
kModeCreateRTSPServer == "RTSPServer"
kModeCreateRTSPClient == "RTSPClient"

Modes == {kModeCreateUDPSession, kModeCreateTCPDatagramSessionPassive, kModeCreateTCPDatagramSessionActive, kModeCreateRTSPServer, kModeCreateRTSPClient}

----------------------------------------------------------------------------
(* Bounds of the model *)

MaxSessionIDs == 3   \* Session objects constructed in one run
MaxPipe == 2         \* unread wake bytes
MaxBuf == 3          \* bytes held in mInBuffer / mOutBuffer (engine runs)
MaxQueue == 1        \* datagrams held in mOutDatagrams (engine runs)
MaxCalls == 3        \* sendRequest calls on the framed connection

----------------------------------------------------------------------------
(* Helpers *)

Min(S) == CHOOSE x \in S : \A y \in S : x <= y

Take(s, n) == SubSeq(s, 1, n)
Drop(s, n) == SubSeq(s, n + 1, Len(s))

\* a 16-bit read that takes the first byte as the less significant
U16_LE_AT(buf, off) == buf[off + 1] + buf[off + 2] * 256

\* U16_AT(ptr): big-endian 16-bit read at 0-based offset off
U16_AT(buf, off) == buf[off + 1] * 256 + buf[off + 2]

\* strlen of a C string held in a buffer: bytes before the first NUL
strlen(data) == IF \E i \in 1..Len(data) : data[i] = 0 THEN Min({i \in 1..Len(data) : data[i] = 0}) - 1 ELSE Len(data)

\* lowest free descriptor, as socket(), accept() and pipe() allocate them
FdLimit == MaxSessionIDs + 2
FreeFds == (0..(FdLimit - 1)) \ openFds
LowestFree == Min(FreeFds)

\* a socket call of a session and its errno (0: it succeeded)
Call(id, name, errno) == [sessionID |-> id, call |-> name, errno |-> errno]
NoCall == Call(0, "none", 0)

Note(reason, id, send, err, channel, data) == [reason |-> reason, sessionID |-> id, send |-> send, err |-> err, channel |-> channel, data |-> data]

----------------------------------------------------------------------------
(* Session *)

\* Session::Session: the object, and the ClientConnected notification the
\* constructor posts for a session born CONNECTED
Session(sessionID, state, s) == [mSessionID |-> sessionID, mState |-> state, mIsRTSPConnection |-> FALSE, mSocket |-> s, mSawReceiveFailure |-> FALSE, mSawSendFailure |-> FALSE, mOutBuffer |-> <<>>, mOutDatagrams |-> <<>>, mInBuffer |-> <<>>]

SessionNotes(sessionID, state) == IF state = CONNECTED THEN <<Note("ClientConnected", sessionID, FALSE, 0, 0, <<>>)>> ELSE <<>>

setIsRTSPConnection(sess, yesno) == [sess EXCEPT !.mIsRTSPConnection = yesno]

isRTSPServer(sess) == sess.mState = LISTENING_RTSP

isTCPDatagramServer(sess) == sess.mState = LISTENING_TCP_DGRAMS

\* wantsToRead without the test of mSawReceiveFailure
wantsToReadDespiteFailure(sess) == sess.mState # CONNECTING

wantsToRead(sess) == ~sess.mSawReceiveFailure /\ sess.mState # CONNECTING

\* wantsToWrite without the test of mSawSendFailure
wantsToWriteDespiteFailure(sess) ==
  \/ sess.mState = CONNECTING
  \/ (sess.mState = CONNECTED /\ sess.mOutBuffer # <<>>)
  \/ (sess.mState = DATAGRAM /\ sess.mOutDatagrams # <<>>)

wantsToWrite(sess) ==
  /\ ~sess.mSawSendFailure
  /\ \/ sess.mState = CONNECTING
     \/ (sess.mState = CONNECTED /\ sess.mOutBuffer # <<>>)
     \/ (sess.mState = DATAGRAM /\ sess.mOutDatagrams # <<>>)

notifyError(sess, send, err) == Note("Error", sess.mSessionID, send, err, 0, <<>>)

notify(sess, reason) == Note(reason, sess.mSessionID, FALSE, 0, 0, <<>>)

\* the two prefix bytes sendRequest stores for a length-prefixed frame
Prefix(size) == << (size \div 256) % 256, size % 256 >>

\* Session::sendRequest(data, size): data is the caller's buffer; a negative
\* size means "data is a C string".  abort = a CHECK failed.
Session_sendRequest(sess, data, size) ==
  IF sess.mState \notin {CONNECTED, DATAGRAM} THEN [abort |-> TRUE, sess |-> sess, err |-> OK]
  ELSE IF sess.mState = DATAGRAM THEN
    IF size < 0 THEN [abort |-> TRUE, sess |-> sess, err |-> OK]
    ELSE [abort |-> FALSE, sess |-> [sess EXCEPT !.mOutDatagrams = Append(@, Take(data, size))], err |-> OK]
  ELSE IF ~sess.mIsRTSPConnection /\ size > kMaxPrefixedSize THEN [abort |-> TRUE, sess |-> sess, err |-> OK]
  ELSE LET prefix == IF ~sess.mIsRTSPConnection THEN Prefix(size) ELSE <<>>
           body == Take(data, IF size >= 0 THEN size ELSE strlen(data))
       IN [abort |-> FALSE, sess |-> [sess EXCEPT !.mOutBuffer = @ \o prefix \o body], err |-> OK]

----------------------------------------------------------------------------
(* Framer: Session::readMore *)

\* ParsedMessage::Parse is an external library: given the buffer it returns
\* NULL (ok = FALSE) or a message with the length it consumed.  Modelled as a
\* parser of messages whose header ends at the first end-of-message byte.
\* A header of three bytes that starts with the content-length byte
\* announces in its second byte the number of content bytes that follow it;
\* any other message carries no content.  A message is returned once all of
\* it is in the buffer.
kEndOfMessage == 10
kContentLength == 67

ParsedMessage_Parse(buf, noMoreData) ==
  IF \E i \in 1..Len(buf) : buf[i] = kEndOfMessage
  THEN LET header == Min({i \in 1..Len(buf) : buf[i] = kEndOfMessage})
           announced == IF header = 3 /\ buf[1] = kContentLength THEN buf[2] ELSE 0
       IN IF Len(buf) >= header + announced
          THEN [ok |-> TRUE, length |-> header + announced, content |-> SubSeq(buf, header + 1, header + announced)]
          ELSE [ok |-> FALSE, length |-> 0, content |-> <<>>]
  ELSE [ok |-> FALSE, length |-> 0, content |-> <<>>]

\* "wfd_idr_request\r\n"
kIdrRequest == <<119, 102, 100, 95, 105, 100, 114, 95, 114, 101, 113, 117, 101, 115, 116, 13, 10>>

\* the number of bytes erased without the quirk
RtspAdvanceNoQuirk(buf, msg) == msg.length

\* the number of bytes readMore erases for a parsed message (the quirk)
RtspAdvance(buf, msg) ==
  IF /\ Len(msg.content) >= Len(kIdrRequest)
     /\ Take(msg.content, Len(kIdrRequest)) = kIdrRequest
     /\ msg.length >= Len(kIdrRequest) + 2
     /\ Len(buf) >= msg.length + 2
     /\ buf[msg.length + 1] = 13
     /\ buf[msg.length + 2] = 10
  THEN msg.length + 2
  ELSE msg.length

\* the while loop of the length-prefixed branch: notifications, rest of buffer
RECURSIVE DrainPrefixed(_, _)
DrainPrefixed(sess, buf) ==
  IF Len(buf) < 2 THEN [notes |-> <<>>, buf |-> buf]
  ELSE LET packetSize == U16_AT(buf, 0) IN
    IF Len(buf) < packetSize + 2 THEN [notes |-> <<>>, buf |-> buf]
    ELSE LET rest == DrainPrefixed(sess, Drop(buf, packetSize + 2))
         IN [notes |-> <<Note("Datagram", sess.mSessionID, FALSE, 0, 0, SubSeq(buf, 3, packetSize + 2))>> \o rest.notes, buf |-> rest.buf]

\* the for (;;) loop of the RTSP branch
RECURSIVE DrainRtsp(_, _, _)
DrainRtsp(sess, buf, err) ==
  IF Len(buf) > 0 /\ buf[1] = kDollar THEN
    IF Len(buf) < 4 THEN [notes |-> <<>>, buf |-> buf]
    ELSE LET length == U16_AT(buf, 2) IN
      IF Len(buf) < 4 + length THEN [notes |-> <<>>, buf |-> buf]
      ELSE LET rest == DrainRtsp(sess, Drop(buf, 4 + length), err)
           IN [notes |-> <<Note("BinaryData", sess.mSessionID, FALSE, 0, buf[2], SubSeq(buf, 5, 4 + length))>> \o rest.notes, buf |-> rest.buf]
  ELSE LET msg == ParsedMessage_Parse(buf, err # OK) IN
    IF ~msg.ok THEN [notes |-> <<>>, buf |-> buf]
    ELSE LET note == Note("Data", sess.mSessionID, FALSE, 0, 0, Take(buf, msg.length))
             after == Drop(buf, RtspAdvance(buf, msg))
         IN IF err # OK THEN [notes |-> <<note>>, buf |-> after]
            ELSE LET rest == DrainRtsp(sess, after, err)
                 IN [notes |-> <<note>> \o rest.notes, buf |-> rest.buf]

\* the result of one recv/send/recvfrom call: n > 0 bytes (data), n = 0, or
\* n < 0 with errno
Got(data) == [n |-> Len(data), data |-> data, errno |-> 0]
Failed(errno) == [n |-> -1, data |-> <<>>, errno |-> errno]

\* readMore on a stream session, r the result of its one recv
readMoreStream(sess, r) ==
  LET err == IF r.n > 0 THEN OK ELSE IF r.n < 0 THEN -r.errno ELSE -ECONNRESET
      inbuf == IF r.n > 0 THEN sess.mInBuffer \o r.data ELSE sess.mInBuffer
      d == IF ~sess.mIsRTSPConnection THEN DrainPrefixed(sess, inbuf) ELSE DrainRtsp(sess, inbuf, err)
  IN [sess |-> [sess EXCEPT !.mInBuffer = d.buf, !.mSawReceiveFailure = IF err # OK THEN TRUE ELSE @],
      notes |-> d.notes \o (IF err # OK THEN <<notifyError(sess, FALSE, err)>> ELSE <<>>),
      err |-> err]

\* readMore on a DATAGRAM session: recvfrom until one fails; rr is the
\* sequence of results, the last one being the first with n <= 0
RECURSIVE DatagramNotes(_, _)
DatagramNotes(sess, rr) ==
  IF rr = <<>> \/ Head(rr).n <= 0 THEN <<>>
  ELSE <<Note("Datagram", sess.mSessionID, FALSE, 0, 0, Head(rr).data)>> \o DatagramNotes(sess, Tail(rr))

readMoreDatagram(sess, rr) ==
  LET last == rr[Len(rr)]
      err0 == IF last.n < 0 THEN -last.errno ELSE -ECONNRESET
      err == IF err0 = -EAGAIN THEN OK ELSE err0
  IN [sess |-> [sess EXCEPT !.mSawReceiveFailure = IF err # OK THEN TRUE ELSE @],
      notes |-> DatagramNotes(sess, rr) \o (IF err # OK THEN <<notifyError(sess, FALSE, err)>> ELSE <<>>),
      err |-> err]

readMore(sess, rr) == IF sess.mState = DATAGRAM THEN readMoreDatagram(sess, rr) ELSE readMoreStream(sess, rr[1])


----------------------------------------------------------------------------
(* Session::writeMore *)

\* a reading of ALooper::GetNowUs(), an int64_t: 100 * hundreds + rest
\* microseconds, rest < 100 (readings up to 2^31 * 100 us, some 59 hours)
Us(hundreds, rest) == [hundreds |-> hundreds, rest |-> rest]

\* uint32_t rtpTime = (nowUs * 9ll) / 100ll: the quotient is
\* 9 * hundreds + (9 * rest) / 100, and the conversion to uint32_t keeps
\* it modulo 2^32.  The result is <<upper 16 bits, lower 16 bits>>.
RtpTime(nowUs) ==
  LET lo == 9 * (nowUs.hundreds % 65536) + (9 * nowUs.rest) \div 100
      hi == 9 * (nowUs.hundreds \div 65536) + lo \div 65536
  IN <<hi % 65536, lo % 65536>>

\* the four bytes least significant first
LittleEndian32(v) == << v[2] % 256, v[2] \div 256, v[1] % 256, v[1] \div 256 >>

\* data[4] = rtpTime >> 24 ... data[7] = rtpTime & 0xff
BigEndian32(v) == << v[1] \div 256, v[1] % 256, v[2] \div 256, v[2] % 256 >>

IsRtpTS(d) == Len(d) >= 2 /\ d[1] = kRtpVersionByte /\ (d[2] % 128) = kRtpPayloadTypeTS

\* the datagram as writeMore leaves it in the queue and hands it to send
Stamp(d, nowUs) ==
  IF IsRtpTS(d)
  THEN [p \in 1..Len(d) |-> IF p \in 5..8 THEN BigEndian32(RtpTime(nowUs))[p - 4] ELSE d[p]]
  ELSE d

\* the stamping code touches bytes that are not the datagram's: the test
\* reads data[0], and data[1] if data[0] is 0x80, whatever the size; if it
\* succeeds, U32_AT reads and the four stores write data[4..7].  (Past the
\* end the test reads whatever the heap holds; whichever way it goes, bytes
\* outside the datagram have been accessed and those inside are as Stamp
\* says.)
StampOverruns(d) ==
  \/ Len(d) = 0
  \/ Len(d) = 1 /\ d[1] = kRtpVersionByte
  \/ IsRtpTS(d) /\ Len(d) < 8

\* the do-while loop taking the head off the queue before it knows what
\* send returned
RECURSIVE SendDatagramsDropsOnError(_, _, _)
SendDatagramsDropsOnError(queue, ee, nowUs) ==
  LET datagram == Stamp(Head(queue), Head(nowUs))
      n == IF Head(ee) = 0 THEN Len(datagram) ELSE -1
      err == IF n > 0 THEN OK ELSE IF n < 0 THEN -Head(ee) ELSE -ECONNRESET
      left == Tail(queue)
  IN IF err = OK /\ left # <<>>
     THEN LET more == SendDatagramsDropsOnError(left, Tail(ee), Tail(nowUs))
          IN [queue |-> more.queue, err |-> more.err, sent |-> <<datagram>> \o more.sent, calls |-> 1 + more.calls, overrun |-> StampOverruns(Head(queue)) \/ more.overrun]
     ELSE [queue |-> left, err |-> err, sent |-> IF n >= 0 /\ Head(ee) = 0 THEN <<datagram>> ELSE <<>>, calls |-> 1, overrun |-> StampOverruns(Head(queue))]

\* the do-while loop of the DATAGRAM branch.  ee[j] is the errno of the j-th
\* send (0: the datagram was sent, send returned its size), nowUs[j] the
\* clock reading taken before it.
RECURSIVE SendDatagrams(_, _, _)
SendDatagrams(queue, ee, nowUs) ==
  LET datagram == Stamp(Head(queue), Head(nowUs))
      n == IF Head(ee) = 0 THEN Len(datagram) ELSE -1
      err == IF n > 0 THEN OK ELSE IF n < 0 THEN -Head(ee) ELSE -ECONNRESET
      left == IF n > 0 THEN Tail(queue) ELSE <<datagram>> \o Tail(queue)
  IN IF err = OK /\ left # <<>>
     THEN LET more == SendDatagrams(left, Tail(ee), Tail(nowUs))
          IN [queue |-> more.queue, err |-> more.err, sent |-> <<datagram>> \o more.sent, calls |-> 1 + more.calls, overrun |-> StampOverruns(Head(queue)) \/ more.overrun]
     ELSE [queue |-> left, err |-> err, sent |-> IF n >= 0 /\ Head(ee) = 0 THEN <<datagram>> ELSE <<>>, calls |-> 1, overrun |-> StampOverruns(Head(queue))]

Unchanged(sess) == [abort |-> FALSE, sess |-> sess, notes |-> <<>>, err |-> OK, last |-> NoCall, overrun |-> FALSE]

\* the CONNECTING branch without its "return -err": the failure is reported
\* and the session goes on to CONNECTED
writeMoreConnectingFallsThrough(sess, soError) ==
  IF soError # 0
  THEN [abort |-> FALSE, sess |-> [sess EXCEPT !.mSawSendFailure = TRUE, !.mState = CONNECTED], notes |-> <<notifyError(sess, kWhatError # 0, -soError), notify(sess, "Connected")>>, err |-> OK, last |-> Call(sess.mSessionID, "getsockopt", soError), overrun |-> FALSE]
  ELSE [abort |-> FALSE, sess |-> [sess EXCEPT !.mState = CONNECTED], notes |-> <<notify(sess, "Connected")>>, err |-> OK, last |-> Call(sess.mSessionID, "getsockopt", 0), overrun |-> FALSE]

\* the CONNECTING branch of writeMore: getsockopt(SO_ERROR) gives soError.
\* notifyError's first parameter is "bool send"; the call passes kWhatError.
writeMoreConnecting(sess, soError) ==
  IF soError # 0
  THEN [abort |-> FALSE, sess |-> [sess EXCEPT !.mSawSendFailure = TRUE], notes |-> <<notifyError(sess, kWhatError # 0, -soError)>>, err |-> -soError, last |-> Call(sess.mSessionID, "getsockopt", soError), overrun |-> FALSE]
  ELSE [abort |-> FALSE, sess |-> [sess EXCEPT !.mState = CONNECTED], notes |-> <<notify(sess, "Connected")>>, err |-> OK, last |-> Call(sess.mSessionID, "getsockopt", 0), overrun |-> FALSE]

\* writeMore.  ee: errnos of the sends (one for a stream), n: bytes a
\* successful stream send takes, soError: SO_ERROR of a connecting socket,
\* nowUs: the clock readings, one for each send.
writeMore(sess, ee, n, soError, nowUs) ==
  IF sess.mState = DATAGRAM THEN
    IF sess.mOutDatagrams = <<>> THEN [Unchanged(sess) EXCEPT !.abort = TRUE]
    ELSE LET w == SendDatagrams(sess.mOutDatagrams, ee, nowUs)
             err == IF w.err = -EAGAIN THEN OK ELSE w.err
         IN [abort |-> FALSE,
             sess |-> [sess EXCEPT !.mOutDatagrams = w.queue, !.mSawSendFailure = IF err # OK THEN TRUE ELSE @],
             notes |-> IF err # OK THEN <<notifyError(sess, TRUE, err)>> ELSE <<>>,
             err |-> err, last |-> Call(sess.mSessionID, "send", ee[w.calls]), overrun |-> w.overrun]
  ELSE IF sess.mState = CONNECTING THEN writeMoreConnecting(sess, soError)
  ELSE IF sess.mState # CONNECTED \/ sess.mOutBuffer = <<>> THEN [Unchanged(sess) EXCEPT !.abort = TRUE]
  ELSE LET sent == IF Head(ee) = 0 THEN n ELSE -1
           err == IF sent > 0 THEN OK ELSE IF sent < 0 THEN -Head(ee) ELSE -ECONNRESET
       IN [abort |-> FALSE,
           sess |-> [sess EXCEPT !.mOutBuffer = IF sent > 0 THEN Drop(@, sent) ELSE @, !.mSawSendFailure = IF err # OK THEN TRUE ELSE @],
           notes |-> IF err # OK THEN <<notifyError(sess, TRUE, err)>> ELSE <<>>,
           err |-> err, last |-> Call(sess.mSessionID, "send", Head(ee)), overrun |-> FALSE]


----------------------------------------------------------------------------
(* Engine: construction and the control API *)

NoReq == [data |-> <<>>, size |-> 0, made |-> FALSE]
Req(data, size) == [data |-> data, size |-> size, made |-> TRUE]

NoRet == [op |-> "none", sessionID |-> 0, err |-> OK]
Ret(op, id, err) == [op |-> op, sessionID |-> id, err |-> err]

\* no control call is blocked in interrupt()
NoWriter == [op |-> "none", sessionID |-> 0]

\* ANetworkSession::ANetworkSession
Init ==
  /\ mSessions = <<>>
  /\ mNextSessionID = 1
  /\ mThread = FALSE
  /\ mPipeFd = <<-1, -1>>
  /\ pipeBytes = 0
  /\ openFds = {}
  /\ pc = "none"
  /\ rs = {}
  /\ ws = {}
  /\ res = 0
  /\ idx = 0
  /\ sessionsToAdd = <<>>
  /\ aborted = FALSE
  /\ ret = NoRet
  /\ posted = <<>>
  /\ io = NoCall
  /\ req = NoReq
  /\ issued = <<>>
  /\ destroyed = {}
  /\ tx = <<>>
  /\ wire = <<>>
  /\ rx = <<>>
  /\ mExitPending = FALSE
  /\ writer = NoWriter
  /\ stopping = "none"
  /\ overrun = FALSE

\* the engine mutex is free: the I/O thread holds it while it dispatches
LockFree == pc \notin {"visit", "visitw"}

\* the outputs of the previous step have been taken: its call has returned
\* and its notifications are in the looper's queue
Quiet == ret = NoRet /\ posted = <<>> /\ io = NoCall /\ req = NoReq

Running == ~aborted /\ Quiet

\* a step's outputs are taken before the next step
Return ==
  /\ ~Quiet
  /\ ret' = NoRet
  /\ posted' = <<>>
  /\ io' = NoCall
  /\ req' = NoReq
  /\ UNCHANGED <<mSessions, engineVars, loopVars, aborted, issued, destroyed, frameVars>>

\* mNextSessionID++ without the increment
NoIncrement(n) == n

\* mNextSessionID++: the counter after the session took the value n
PostIncrement(n) == n + 1

\* a control thread may run an API call that writes a wake byte
CanPoke == mPipeFd[2] < 0 \/ pipeBytes < MaxPipe

\* interrupt(): one byte into the wake pipe (a failed write is only logged)
interrupt == pipeBytes' = IF mPipeFd[2] >= 0 THEN pipeBytes + 1 ELSE pipeBytes

\* mSessions.add(key, value)
Add(map, sess) == [k \in DOMAIN map \cup {sess.mSessionID} |-> IF k = sess.mSessionID THEN sess ELSE map[k]]

\* mSessions.removeItemsAt(indexOfKey(key))
Remove(map, key) == [k \in DOMAIN map \ {key} |-> map[k]]

\* mSessions.keyAt(i - 1): the vector is sorted by key
KeyAt(map, i) == CHOOSE k \in DOMAIN map : Cardinality({j \in DOMAIN map : j <= k}) = i

\* ANetworkSession::start without its mThread != NULL check
startDespiteThread(pipeOk, runOk) ==
  /\ Running
  /\ IF ~pipeOk \/ Cardinality(FreeFds) < 2 THEN
       /\ ret' = Ret("start", 0, -EMFILE)
       /\ mPipeFd' = <<-1, -1>>
       /\ UNCHANGED <<mThread, openFds, pc>>
     ELSE IF ~runOk THEN
       /\ ret' = Ret("start", 0, -EAGAIN)
       /\ mPipeFd' = <<-1, -1>>
       /\ UNCHANGED <<mThread, openFds, pc>>
     ELSE
       /\ ret' = Ret("start", 0, OK)
       /\ mThread' = TRUE
       /\ mPipeFd' = <<LowestFree, Min(FreeFds \ {LowestFree})>>
       /\ openFds' = openFds \cup {LowestFree, Min(FreeFds \ {LowestFree})}
       /\ pc' = "build"
  /\ posted' = <<>>
  /\ io' = NoCall
  /\ UNCHANGED <<mSessions, mNextSessionID, pipeBytes, rs, ws, res, idx, sessionsToAdd, aborted, issued, destroyed, quietVars>>

\* ANetworkSession::start, with the outcomes of pipe() and Thread::run
start(pipeOk, runOk) ==
  /\ Running
  /\ IF mThread THEN
       /\ ret' = Ret("start", 0, INVALID_OPERATION)
       /\ UNCHANGED <<mThread, mPipeFd, openFds, pc>>
     ELSE IF ~pipeOk \/ Cardinality(FreeFds) < 2 THEN
       /\ ret' = Ret("start", 0, -EMFILE)
       /\ mPipeFd' = <<-1, -1>>
       /\ UNCHANGED <<mThread, openFds, pc>>
     ELSE IF ~runOk THEN
       /\ ret' = Ret("start", 0, -EAGAIN)
       /\ mPipeFd' = <<-1, -1>>
       /\ UNCHANGED <<mThread, openFds, pc>>
     ELSE
       /\ ret' = Ret("start", 0, OK)
       /\ mThread' = TRUE
       /\ mPipeFd' = <<LowestFree, Min(FreeFds \ {LowestFree})>>
       /\ openFds' = openFds \cup {LowestFree, Min(FreeFds \ {LowestFree})}
       /\ pc' = "build"
  /\ posted' = <<>>
  /\ io' = NoCall
  /\ UNCHANGED <<mSessions, mNextSessionID, pipeBytes, rs, ws, res, idx, sessionsToAdd, aborted, issued, destroyed, quietVars>>

\* the socket-setup steps createClientOrServer takes for a mode, in order
\* (socket() itself comes first for every mode)
SetupSteps(mode, hasRemote) ==
  CASE mode = kModeCreateRTSPClient -> <<"nonblock", "resolve", "connect">>
    [] mode = kModeCreateTCPDatagramSessionActive -> <<"nonblock", "resolve", "connect">>
    [] mode = kModeCreateRTSPServer -> <<"setsockopt", "nonblock", "bind", "listen">>
    [] mode = kModeCreateTCPDatagramSessionPassive -> <<"setsockopt", "nonblock", "bind", "listen">>
    [] OTHER -> IF hasRemote THEN <<"setsockopt", "nonblock", "bind", "resolve", "connect">> ELSE <<"setsockopt", "nonblock", "bind">>

StateOfMode(mode) ==
  CASE mode = kModeCreateRTSPClient -> CONNECTING
    [] mode = kModeCreateTCPDatagramSessionActive -> CONNECTING
    [] mode = kModeCreateTCPDatagramSessionPassive -> LISTENING_TCP_DGRAMS
    [] mode = kModeCreateRTSPServer -> LISTENING_RTSP
    [] OTHER -> DATAGRAM

ErrnoOf(step) == IF step = "resolve" THEN HOST_NOT_FOUND ELSE IF step = "socket" THEN EMFILE ELSE ECONNREFUSED

\* bail2 without close(s): the descriptor stays open
Bail2Leaks(s) == openFds' = openFds \cup {s}

\* bail2: close(s)
Bail2(s) == openFds' = (openFds \cup {s}) \ {s}

\* ANetworkSession::createClientOrServer.  failAt: the setup step that fails
\* ("socket", one of SetupSteps, "none"); connectNow: a client's connect
\* completes at once instead of returning EINPROGRESS.
createClientOrServer(mode, hasRemote, failAt, connectNow) ==
  /\ Running /\ LockFree
  /\ IF failAt = "socket" \/ FreeFds = {} THEN
       /\ ret' = Ret("create", 0, -ErrnoOf("socket"))
       /\ UNCHANGED <<mSessions, mNextSessionID, pipeBytes, openFds, aborted, issued>>
     ELSE IF failAt # "none" THEN
       /\ ret' = Ret("create", 0, -ErrnoOf(failAt))
       /\ Bail2(LowestFree)
       /\ UNCHANGED <<mSessions, mNextSessionID, pipeBytes, aborted, issued>>
     ELSE IF connectNow /\ StateOfMode(mode) = CONNECTING THEN
       /\ aborted' = TRUE
       /\ ret' = NoRet
       /\ openFds' = openFds \cup {LowestFree}
       /\ UNCHANGED <<mSessions, mNextSessionID, pipeBytes, issued>>
     ELSE
       /\ Len(issued) < MaxSessionIDs
       /\ CanPoke
       /\ LET s == LowestFree
              session == setIsRTSPConnection(Session(mNextSessionID, StateOfMode(mode), s), mode = kModeCreateRTSPClient)
          IN /\ mNextSessionID' = PostIncrement(mNextSessionID)
             /\ issued' = Append(issued, session.mSessionID)
             /\ mSessions' = Add(mSessions, session)
             /\ openFds' = openFds \cup {s}
             /\ ret' = Ret("create", session.mSessionID, OK)
       /\ interrupt
       /\ UNCHANGED aborted
  /\ posted' = <<>>
  /\ io' = NoCall
  /\ UNCHANGED <<mThread, mPipeFd, loopVars, destroyed, quietVars>>

\* destroySession that reports OK for an ID it does not find
destroySessionAlwaysOK(sessionID) ==
  /\ Running /\ LockFree
  /\ IF sessionID \notin DOMAIN mSessions THEN
       /\ ret' = Ret("destroy", sessionID, OK)
       /\ UNCHANGED <<mSessions, openFds, pipeBytes, destroyed>>
     ELSE
       /\ CanPoke
       /\ mSessions' = Remove(mSessions, sessionID)
       /\ openFds' = openFds \ {mSessions[sessionID].mSocket}
       /\ interrupt
       /\ destroyed' = destroyed \cup {sessionID}
       /\ ret' = Ret("destroy", sessionID, OK)
  /\ posted' = <<>>
  /\ io' = NoCall
  /\ UNCHANGED <<mNextSessionID, mThread, mPipeFd, loopVars, aborted, issued, quietVars>>

\* destroySession whose Session destructor does not close the socket
destroySessionLeaks(sessionID) ==
  /\ Running /\ LockFree
  /\ IF sessionID \notin DOMAIN mSessions THEN
       /\ ret' = Ret("destroy", sessionID, -ENOENT)
       /\ UNCHANGED <<mSessions, openFds, pipeBytes, destroyed>>
     ELSE
       /\ CanPoke
       /\ mSessions' = Remove(mSessions, sessionID)
       /\ openFds' = openFds
       /\ interrupt
       /\ destroyed' = destroyed \cup {sessionID}
       /\ ret' = Ret("destroy", sessionID, OK)
  /\ posted' = <<>>
  /\ io' = NoCall
  /\ UNCHANGED <<mNextSessionID, mThread, mPipeFd, loopVars, aborted, issued, quietVars>>

\* ANetworkSession::destroySession
destroySession(sessionID) ==
  /\ Running /\ LockFree
  /\ IF sessionID \notin DOMAIN mSessions THEN
       /\ ret' = Ret("destroy", sessionID, -ENOENT)
       /\ UNCHANGED <<mSessions, openFds, pipeBytes, destroyed>>
     ELSE
       /\ CanPoke
       /\ mSessions' = Remove(mSessions, sessionID)
       /\ openFds' = openFds \ {mSessions[sessionID].mSocket}
       /\ interrupt
       /\ destroyed' = destroyed \cup {sessionID}
       /\ ret' = Ret("destroy", sessionID, OK)
  /\ posted' = <<>>
  /\ io' = NoCall
  /\ UNCHANGED <<mNextSessionID, mThread, mPipeFd, loopVars, aborted, issued, quietVars>>

\* ANetworkSession::sendRequest
sendRequest(sessionID, data, size) ==
  /\ Running /\ LockFree
  /\ IF sessionID \notin DOMAIN mSessions THEN
       /\ ret' = Ret("send", sessionID, -ENOENT)
       /\ UNCHANGED <<mSessions, pipeBytes, aborted>>
     ELSE LET r == Session_sendRequest(mSessions[sessionID], data, size) IN
       IF r.abort THEN
         /\ aborted' = TRUE
         /\ ret' = NoRet
         /\ UNCHANGED <<mSessions, pipeBytes>>
       ELSE
         /\ CanPoke
         /\ mSessions' = [mSessions EXCEPT ![sessionID] = r.sess]
         /\ interrupt
         /\ ret' = Ret("send", sessionID, r.err)
         /\ UNCHANGED aborted
  /\ req' = Req(data, size)
  /\ posted' = <<>>
  /\ io' = NoCall
  /\ UNCHANGED <<mNextSessionID, mThread, mPipeFd, openFds, loopVars, issued, destroyed>>

\* ANetworkSession::connectUDPSession, with the resolver's and connect's errno
connectUDPSession(sessionID, resolveErr, connectErr) ==
  /\ Running /\ LockFree
  /\ ret' = IF sessionID \notin DOMAIN mSessions THEN Ret("connectUDP", sessionID, -ENOENT)
            ELSE IF resolveErr # 0 THEN Ret("connectUDP", sessionID, -resolveErr)
            ELSE Ret("connectUDP", sessionID, -connectErr)
  /\ posted' = <<>>
  /\ io' = NoCall
  /\ UNCHANGED <<mSessions, engineVars, loopVars, aborted, issued, destroyed, quietVars>>


\* the engine mutex is not held by a control call blocked in interrupt()
MutexFree == writer = NoWriter

\* ANetworkSession::sendRequest when the wake pipe is full: the request is
\* queued under mLock and the call blocks in interrupt()'s write(), which
\* is a blocking write on the pipe, with mLock still held
sendRequestBlocks(sessionID, data, size) ==
  /\ Running /\ LockFree /\ MutexFree
  /\ sessionID \in DOMAIN mSessions
  /\ ~Session_sendRequest(mSessions[sessionID], data, size).abort
  /\ Session_sendRequest(mSessions[sessionID], data, size).err = OK
  /\ ~CanPoke
  /\ mSessions' = [mSessions EXCEPT ![sessionID] = Session_sendRequest(mSessions[sessionID], data, size).sess]
  /\ writer' = [op |-> "send", sessionID |-> sessionID]
  /\ req' = Req(data, size)
  /\ UNCHANGED <<engineVars, loopVars, aborted, ret, posted, io, issued, destroyed, tx, wire, rx, mExitPending, stopping, heapVars>>

\* the blocked write() of interrupt() completes once the pipe has room:
\* the call returns and its Mutex::Autolock releases mLock
interruptCompletes ==
  /\ Running
  /\ writer # NoWriter
  /\ mPipeFd[2] >= 0 /\ pipeBytes < MaxPipe
  /\ pipeBytes' = pipeBytes + 1
  /\ ret' = Ret(writer.op, writer.sessionID, OK)
  /\ writer' = NoWriter
  /\ UNCHANGED <<mSessions, mNextSessionID, mThread, mPipeFd, openFds, loopVars, aborted, posted, io, req, issued, destroyed, tx, wire, rx, mExitPending, stopping, heapVars>>

\* ANetworkSession::stop up to its wait: INVALID_OPERATION without a
\* thread; otherwise requestExit() and interrupt(), whose write() needs
\* room in the pipe (stop does not take mLock) and then requestExitAndWait()
stop ==
  /\ Running
  /\ stopping = "none"
  /\ IF ~mThread THEN
       /\ ret' = Ret("stop", 0, INVALID_OPERATION)
       /\ UNCHANGED <<mExitPending, stopping, pipeBytes>>
     ELSE
       /\ mExitPending' = TRUE
       /\ IF pipeBytes < MaxPipe
            THEN pipeBytes' = pipeBytes + 1 /\ stopping' = "join"
            ELSE pipeBytes' = pipeBytes /\ stopping' = "interrupt"
       /\ UNCHANGED ret
  /\ UNCHANGED <<mSessions, mNextSessionID, mThread, mPipeFd, openFds, loopVars, aborted, posted, io, req, issued, destroyed, tx, wire, rx, writer, heapVars>>

\* stop's interrupt(): its blocked write() completes once the pipe has room
stopInterruptCompletes ==
  /\ Running
  /\ stopping = "interrupt"
  /\ pipeBytes < MaxPipe
  /\ pipeBytes' = pipeBytes + 1
  /\ stopping' = "join"
  /\ UNCHANGED <<mSessions, mNextSessionID, mThread, mPipeFd, openFds, loopVars, aborted, ret, posted, io, req, issued, destroyed, tx, wire, rx, mExitPending, writer, heapVars>>

\* ANetworkSession::stop after requestExitAndWait() has returned, which it
\* does when the thread has left its loop: mThread.clear(), both pipe ends
\* closed and set to -1
stopJoined ==
  /\ Running
  /\ stopping = "join"
  /\ pc = "exited"
  /\ mThread' = FALSE
  /\ pc' = "none"
  /\ mExitPending' = FALSE
  /\ openFds' = openFds \ {mPipeFd[1], mPipeFd[2]}
  /\ mPipeFd' = <<-1, -1>>
  /\ pipeBytes' = 0
  /\ stopping' = "none"
  /\ ret' = Ret("stop", 0, OK)
  /\ UNCHANGED <<mSessions, mNextSessionID, rs, ws, res, idx, sessionsToAdd, aborted, posted, io, req, issued, destroyed, tx, wire, rx, writer, heapVars>>


----------------------------------------------------------------------------
(* Engine: the I/O thread, ANetworkSession::threadLoop *)


\* the sockets the FD_SET loop puts into rs, and into ws
SocketsToRead == {mSessions[k].mSocket : k \in {j \in DOMAIN mSessions : wantsToRead(mSessions[j])}}

SocketsToWrite == {mSessions[k].mSocket : k \in {j \in DOMAIN mSessions : wantsToWrite(mSessions[j])}}

\* the first block: build rs and ws from the session map, under the lock
BuildSets ==
  /\ Running
  /\ pc = "build"
  /\ rs' = {mPipeFd[1]} \cup SocketsToRead
  /\ ws' = SocketsToWrite
  /\ pc' = "select"
  /\ ret' = NoRet
  /\ posted' = <<>>
  /\ io' = NoCall
  /\ UNCHANGED <<mSessions, engineVars, res, idx, sessionsToAdd, aborted, issued, destroyed, quietVars>>

\* Thread::_threadLoop between two passes: threadLoop() has returned true
\* and the thread leaves its loop because exit was requested
threadExits ==
  /\ Running
  /\ pc = "build"
  /\ mExitPending
  /\ pc' = "exited"
  /\ UNCHANGED <<mSessions, engineVars, rs, ws, res, idx, sessionsToAdd, aborted, ret, posted, io, issued, destroyed, quietVars>>


\* select returning the number of descriptors ready for reading alone
SelectCountsReadable(readyR, readyW) ==
  /\ Running
  /\ pc = "select"
  /\ readyR \subseteq rs /\ readyW \subseteq ws
  /\ (readyR \cup readyW) \subseteq openFds
  /\ mPipeFd[1] \in readyR <=> pipeBytes > 0
  /\ readyR \cup readyW # {}
  /\ rs' = readyR
  /\ ws' = readyW
  /\ pipeBytes' = IF mPipeFd[1] \in readyR THEN pipeBytes - 1 ELSE pipeBytes
  /\ res' = Cardinality(readyR) - (IF mPipeFd[1] \in readyR THEN 1 ELSE 0)
  /\ pc' = "woken"
  /\ ret' = NoRet
  /\ posted' = <<>>
  /\ io' = NoCall
  /\ UNCHANGED <<mSessions, mNextSessionID, mThread, mPipeFd, openFds, idx, sessionsToAdd, aborted, issued, destroyed, quietVars>>

\* select returns with readyR and readyW ready, and the wake pipe is drained
\* of one byte if it is among them
Select(readyR, readyW) ==
  /\ Running
  /\ pc = "select"
  /\ readyR \subseteq rs /\ readyW \subseteq ws
  /\ (readyR \cup readyW) \subseteq openFds
  /\ mPipeFd[1] \in readyR <=> pipeBytes > 0
  /\ readyR \cup readyW # {}
  /\ rs' = readyR
  /\ ws' = readyW
  /\ pipeBytes' = IF mPipeFd[1] \in readyR THEN pipeBytes - 1 ELSE pipeBytes
  /\ res' = Cardinality(readyR) + Cardinality(readyW) - (IF mPipeFd[1] \in readyR THEN 1 ELSE 0)
  /\ pc' = "woken"
  /\ ret' = NoRet
  /\ posted' = <<>>
  /\ io' = NoCall
  /\ UNCHANGED <<mSessions, mNextSessionID, mThread, mPipeFd, openFds, idx, sessionsToAdd, aborted, issued, destroyed, quietVars>>

\* select returns 0 or fails (EINTR, EBADF): threadLoop returns and is run again
SelectFails ==
  /\ Running
  /\ pc = "select"
  /\ pc' = "build"
  /\ ret' = NoRet
  /\ posted' = <<>>
  /\ io' = NoCall
  /\ UNCHANGED <<mSessions, engineVars, rs, ws, res, idx, sessionsToAdd, aborted, issued, destroyed, quietVars>>

\* the second block takes the lock: i = mSessions.size()
Lock ==
  /\ Running
  /\ pc = "woken"
  /\ pc' = "visit"
  /\ idx' = Cardinality(DOMAIN mSessions)
  /\ sessionsToAdd' = <<>>
  /\ ret' = NoRet
  /\ posted' = <<>>
  /\ io' = NoCall
  /\ UNCHANGED <<mSessions, engineVars, rs, ws, res, aborted, issued, destroyed, quietVars>>

\* the session the dispatch loop is at
Current == mSessions[KeyAt(mSessions, idx)]

Visiting == Running /\ pc = "visit" /\ res > 0 /\ idx > 0

\* after the read part of an iteration: on to the write part, or to the
\* next session
AfterRead(s) == IF s \in ws THEN pc' = "visitw" /\ idx' = idx ELSE pc' = "visit" /\ idx' = idx - 1

\* an iteration over a session whose socket is in neither set
Skip ==
  /\ Visiting
  /\ Current.mSocket \notin rs \cup ws
  /\ idx' = idx - 1
  /\ ret' = NoRet
  /\ posted' = <<>>
  /\ io' = NoCall
  /\ UNCHANGED <<mSessions, engineVars, pc, rs, ws, res, sessionsToAdd, aborted, issued, destroyed, quietVars>>

\* the read part for a listener.  outcome: what accept, MakeSocketNonBlocking
\* and getpeername do.
Accept(outcome) ==
  /\ Visiting
  /\ Current.mSocket \in rs
  /\ isRTSPServer(Current) \/ isTCPDatagramServer(Current)
  /\ res' = res - 1
  /\ AfterRead(Current.mSocket)
  /\ IF outcome = "accept_fails" \/ FreeFds = {} THEN
       /\ io' = Call(Current.mSessionID, "accept", EAGAIN)
       /\ posted' = <<>>
       /\ UNCHANGED <<mNextSessionID, openFds, sessionsToAdd, aborted, issued>>
     ELSE IF outcome = "nonblock_fails" THEN
       /\ io' = Call(Current.mSessionID, "accept", 0)
       /\ posted' = <<>>
       /\ Bail2(LowestFree)
       /\ UNCHANGED <<mNextSessionID, sessionsToAdd, aborted, issued>>
     ELSE IF outcome = "peer_gone" THEN
       /\ io' = Call(Current.mSessionID, "accept", 0)
       /\ posted' = <<>>
       /\ aborted' = TRUE
       /\ openFds' = openFds \cup {LowestFree}
       /\ UNCHANGED <<mNextSessionID, sessionsToAdd, issued>>
     ELSE
       /\ Len(issued) < MaxSessionIDs
       /\ LET clientSession == setIsRTSPConnection(Session(mNextSessionID, CONNECTED, LowestFree), isRTSPServer(Current))
          IN /\ mNextSessionID' = PostIncrement(mNextSessionID)
             /\ issued' = Append(issued, clientSession.mSessionID)
             /\ sessionsToAdd' = Append(sessionsToAdd, clientSession)
             /\ posted' = SessionNotes(clientSession.mSessionID, CONNECTED)
             /\ openFds' = openFds \cup {LowestFree}
       /\ io' = Call(Current.mSessionID, "accept", 0)
       /\ UNCHANGED aborted
  /\ ret' = NoRet
  /\ UNCHANGED <<mSessions, mThread, mPipeFd, pipeBytes, rs, ws, destroyed, quietVars>>


\* the read part for any other session: readMore with the results rr of its
\* recv (one) or recvfrom (until one fails) calls
Read(rr) ==
  /\ Visiting
  /\ Current.mSocket \in rs
  /\ ~(isRTSPServer(Current) \/ isTCPDatagramServer(Current))
  /\ IF Current.mState = DATAGRAM
     THEN rr[Len(rr)].n <= 0 /\ \A j \in 1..(Len(rr) - 1) : rr[j].n > 0
     ELSE Len(rr) = 1 /\ Len(Current.mInBuffer) + rr[1].n <= MaxBuf
  /\ res' = res - 1
  /\ AfterRead(Current.mSocket)
  /\ LET r == readMore(Current, rr)
     IN /\ mSessions' = [mSessions EXCEPT ![Current.mSessionID] = r.sess]
        /\ posted' = r.notes
  /\ io' = Call(Current.mSessionID, IF Current.mState = DATAGRAM THEN "recvfrom" ELSE "recv", rr[Len(rr)].errno)
  /\ ret' = NoRet
  /\ UNCHANGED <<engineVars, rs, ws, sessionsToAdd, aborted, issued, destroyed, quietVars>>

\* the write part: writeMore with the results of its calls
Write(ee, n, soError, nowUs) ==
  /\ Running
  /\ \/ pc = "visitw"
     \/ Visiting /\ Current.mSocket \in ws \ rs
  /\ Len(ee) = IF Current.mState = DATAGRAM /\ Current.mOutDatagrams # <<>> THEN Len(Current.mOutDatagrams) ELSE 1
  /\ Len(nowUs) = Len(ee)
  /\ soError = 0 \/ Current.mState = CONNECTING
  /\ ee = <<0>> \/ Current.mState \in {CONNECTED, DATAGRAM}
  /\ n = IF Current.mState = CONNECTED /\ ee = <<0>> THEN n ELSE 0
  /\ n \in 0..Len(Current.mOutBuffer)
  /\ res' = IF pc = "visitw" THEN res ELSE res - 1
  /\ pc' = "visit"
  /\ idx' = idx - 1
  /\ LET w == writeMore(Current, ee, n, soError, nowUs)
     IN /\ aborted' = w.abort
        /\ mSessions' = [mSessions EXCEPT ![Current.mSessionID] = w.sess]
        /\ posted' = w.notes
        /\ io' = w.last
        /\ overrun' = (overrun \/ w.overrun)
  /\ ret' = NoRet
  /\ UNCHANGED <<engineVars, rs, ws, sessionsToAdd, issued, destroyed, req, tx, wire, rx, stopVars>>

\* the end of the second block without the while loop over sessionsToAdd
AddStagedDropsChildren ==
  /\ Running
  /\ pc = "visit"
  /\ res <= 0 \/ idx = 0
  /\ mSessions' = mSessions
  /\ sessionsToAdd' = <<>>
  /\ pc' = "build"
  /\ ret' = NoRet
  /\ posted' = <<>>
  /\ io' = NoCall
  /\ UNCHANGED <<engineVars, rs, ws, res, idx, aborted, issued, destroyed, quietVars>>

\* the loop is over: the staged children go into the map, the lock is
\* released and threadLoop returns
AddStaged ==
  /\ Running
  /\ pc = "visit"
  /\ res <= 0 \/ idx = 0
  /\ mSessions' = [k \in DOMAIN mSessions \cup {sessionsToAdd[j].mSessionID : j \in 1..Len(sessionsToAdd)} |->
                     IF k \in DOMAIN mSessions THEN mSessions[k] ELSE sessionsToAdd[CHOOSE j \in 1..Len(sessionsToAdd) : sessionsToAdd[j].mSessionID = k]]
  /\ sessionsToAdd' = <<>>
  /\ pc' = "build"
  /\ ret' = NoRet
  /\ posted' = <<>>
  /\ io' = NoCall
  /\ UNCHANGED <<engineVars, rs, ws, res, idx, aborted, issued, destroyed, quietVars>>


----------------------------------------------------------------------------
(* The engine under every interleaving of control calls and I/O events *)

\* session IDs a caller may pass: every ID that can be issued, and one more
SessionIDs == 1..(MaxSessionIDs + 1)

\* what callers pass to sendRequest: (data, size), size < 0 for a C string
EngineSends == {[data |-> <<kEndOfMessage>>, size |-> 1]}

\* what a recv may deliver to a stream session
RecvChunks == {<<0>>, <<kEndOfMessage>>}

StreamRecvResults == {<<Got(c)>> : c \in RecvChunks} \cup {<<Got(<<>>)>>, <<Failed(EAGAIN)>>, <<Failed(ECONNRESET)>>}

\* recvfrom results of one readMore: datagrams, then the call that ends the loop
LastRecvfrom == {Got(<<>>), Failed(EAGAIN), Failed(ECONNREFUSED)}
DatagramRecvResults == {<<t>> : t \in LastRecvfrom} \cup {<<Got(<<1>>), t>> : t \in LastRecvfrom}

\* errnos of the sends of one writeMore: k sends succeed, the next fails with e
ErrSeq(len, k, e) == [j \in 1..len |-> IF j <= k THEN 0 ELSE e]
SendErrnos == {ErrSeq(len, k, e) : len \in 1..MaxQueue, k \in 0..MaxQueue, e \in {EAGAIN, ECONNRESET}}

\* the monotonic clock, in microseconds
Clock == {Us(0, 0)}

\* what a create call is given and meets: the mode, whether a UDP session
\* gets a default peer, the setup step that fails ("none": none does), and
\* whether a client's connect completes at once
StepsOf(mode, hasRemote) == {"socket"} \cup {SetupSteps(mode, hasRemote)[j] : j \in 1..Len(SetupSteps(mode, hasRemote))}

CreateInputs ==
  UNION {{<<mode, hasRemote, failAt, FALSE>> : failAt \in StepsOf(mode, hasRemote) \cup {"none"}} : mode \in Modes, hasRemote \in BOOLEAN}
  \cup {<<mode, TRUE, "none", TRUE>> : mode \in {kModeCreateRTSPClient, kModeCreateTCPDatagramSessionActive}}

Create == \E c \in CreateInputs : createClientOrServer(c[1], c[2], c[3], c[4])

Start == \E pipeOk \in BOOLEAN, runOk \in BOOLEAN : start(pipeOk, runOk)

Destroy == \E id \in SessionIDs : destroySession(id)

\* the model's bound on what a session may hold after a sendRequest
Fits(sess) == Len(sess.mOutBuffer) <= MaxBuf /\ Len(sess.mOutDatagrams) <= MaxQueue

Send ==
  /\ \E id \in SessionIDs, d \in EngineSends : sendRequest(id, d.data, d.size)
  /\ \A k \in DOMAIN mSessions' : Fits(mSessions'[k])
  /\ UNCHANGED frameVars

ConnectUDP == \E id \in SessionIDs, e \in {<<0, 0>>, <<HOST_NOT_FOUND, 0>>, <<0, ECONNREFUSED>>} : connectUDPSession(id, e[1], e[2])

Wake == \E readyR \in SUBSET rs, readyW \in SUBSET ws : Select(readyR, readyW)

AcceptChild == \E outcome \in {"accept_fails", "nonblock_fails", "peer_gone", "ok"} : Accept(outcome)

ReadMore == \E rr \in StreamRecvResults \cup DatagramRecvResults : Read(rr)

WriteMore == \E ee \in SendErrnos, n \in 0..MaxBuf, soError \in {0, ECONNREFUSED}, nowUs \in Clock : Write(ee, n, soError, [j \in 1..Len(ee) |-> nowUs])

Next ==
  \/ Start
  \/ Create
  \/ Destroy
  \/ Send
  \/ ConnectUDP
  \/ BuildSets
  \/ Wake
  \/ SelectFails
  \/ Lock
  \/ Skip
  \/ AcceptChild
  \/ ReadMore
  \/ WriteMore
  \/ AddStaged
  \/ Return

Spec == Init /\ [][Next]_vars

----------------------------------------------------------------------------
(* Scenario: session lifecycle.  Control threads create and destroy        *)
(* sessions of every mode while the I/O thread accepts children; the peers *)
(* send nothing and no connect completes.                                  *)

Listeners == {mSessions[k].mSocket : k \in {j \in DOMAIN mSessions : isRTSPServer(mSessions[j]) \/ isTCPDatagramServer(mSessions[j])}}

WakeListeners == \E readyR \in SUBSET rs : readyR \subseteq Listeners \cup {mPipeFd[1]} /\ Select(readyR, {})

NextLifecycle ==
  \/ Start
  \/ Create
  \/ Destroy
  \/ BuildSets
  \/ WakeListeners
  \/ SelectFails
  \/ Lock
  \/ Skip
  \/ AcceptChild
  \/ AddStaged
  \/ Return

SpecLifecycle == Init /\ [][NextLifecycle]_vars

----------------------------------------------------------------------------
(* Scenario: one session at a time under the I/O loop, with every result   *)
(* its socket calls can have; no client connects to a listener.            *)

CreateAlone == mSessions = <<>> /\ Create

WakeSessions == \E readyR \in SUBSET rs, readyW \in SUBSET ws : readyR \cap Listeners = {} /\ Select(readyR, readyW)

NextSession ==
  \/ Start
  \/ CreateAlone
  \/ Destroy
  \/ Send
  \/ ConnectUDP
  \/ BuildSets
  \/ WakeSessions
  \/ SelectFails
  \/ Lock
  \/ ReadMore
  \/ WriteMore
  \/ AddStaged
  \/ Return

SpecSession == Init /\ [][NextSession]_vars


----------------------------------------------------------------------------
(* Scenario: sendRequest at the limits of the 16-bit length prefix.  One   *)
(* session exists, of any kind sendRequest serves; callers pass payloads   *)
(* of the boundary sizes and C strings (size < 0).                         *)

Fill(size, b) == [j \in 1..size |-> b]

\* a connected client or accepted child (stream), or a UDP session
Established(id, state, rtsp, s) == setIsRTSPConnection(Session(id, state, s), rtsp)

InitSend ==
  /\ \E kind \in {<<CONNECTED, FALSE>>, <<CONNECTED, TRUE>>, <<DATAGRAM, FALSE>>} :
       mSessions = Add(<<>>, Established(1, kind[1], kind[2], 0))
  /\ mNextSessionID = 2
  /\ issued = <<1>>
  /\ openFds = {0}
  /\ mThread = FALSE
  /\ mPipeFd = <<-1, -1>>
  /\ pipeBytes = 0
  /\ pc = "none"
  /\ rs = {}
  /\ ws = {}
  /\ res = 0
  /\ idx = 0
  /\ sessionsToAdd = <<>>
  /\ aborted = FALSE
  /\ ret = NoRet
  /\ posted = <<>>
  /\ io = NoCall
  /\ req = NoReq
  /\ destroyed = {}
  /\ tx = <<>>
  /\ wire = <<>>
  /\ rx = <<>>
  /\ mExitPending = FALSE
  /\ writer = NoWriter
  /\ stopping = "none"
  /\ overrun = FALSE

\* (data, size) pairs: the boundary sizes, and C strings passed with size -1
LimitSends ==
  {Req(Fill(size, b), size) : size \in {0, 1, 2, kMaxPrefixedSize - 1, kMaxPrefixedSize, kMaxPrefixedSize + 1}, b \in {0, 7}}
  \cup {Req(str, -1) : str \in {<<>>, <<7>>, <<7, 7>>, <<7, 0, 7>>}}

\* a caller sends once more while the session holds at most two bytes and
\* no datagram
SendAtLimit ==
  /\ Len(mSessions[1].mOutBuffer) <= 2
  /\ mSessions[1].mOutDatagrams = <<>>
  /\ \E d \in LimitSends : sendRequest(1, d.data, d.size)
  /\ UNCHANGED frameVars

NextSend ==
  \/ SendAtLimit
  \/ Return

SpecSend == InitSend /\ [][NextSend]_vars

----------------------------------------------------------------------------
(* Scenario: a length-prefixed TCP connection.  Session 1 (a connected     *)
(* TcpDatagram client) sends to session 2 (the accepted child at the other *)
(* end); the transport takes any prefix of the outbound buffer per send    *)
(* and delivers at most kRecvChunk bytes per recv.                         *)

InitFraming ==
  /\ mSessions = Add(Add(<<>>, Established(1, CONNECTED, FALSE, 0)), Established(2, CONNECTED, FALSE, 1))
  /\ mNextSessionID = 3
  /\ issued = <<1, 2>>
  /\ openFds = {0, 1}
  /\ mThread = FALSE
  /\ mPipeFd = <<-1, -1>>
  /\ pipeBytes = 0
  /\ pc = "none"
  /\ rs = {}
  /\ ws = {}
  /\ res = 0
  /\ idx = 0
  /\ sessionsToAdd = <<>>
  /\ aborted = FALSE
  /\ ret = NoRet
  /\ posted = <<>>
  /\ io = NoCall
  /\ req = NoReq
  /\ destroyed = {}
  /\ tx = <<>>
  /\ wire = <<>>
  /\ rx = <<>>
  /\ mExitPending = FALSE
  /\ writer = NoWriter
  /\ stopping = "none"
  /\ overrun = FALSE

\* what callers send: payloads given with their size, and a C string
FramedSends == {Req(<<>>, 0), Req(<<0>>, 1), Req(<<0, 1>>, 2), Req(<<1>>, -1)}

\* the payload a sendRequest call carries
PayloadOf(d) == Take(d.data, IF d.size >= 0 THEN d.size ELSE strlen(d.data))

RECURSIVE DataOf(_)
DataOf(notes) == IF notes = <<>> THEN <<>> ELSE (IF Head(notes).reason = "Datagram" THEN <<Head(notes).data>> ELSE <<>>) \o DataOf(Tail(notes))

\* sendRequest on the sending session
FramedSend ==
  /\ Running
  /\ Len(tx) < MaxCalls
  /\ \E d \in FramedSends :
       /\ sendRequest(1, d.data, d.size)
       /\ tx' = Append(tx, PayloadOf(d))
  /\ UNCHANGED <<wire, rx, stopVars, heapVars>>

\* writeMore on the sending session: the kernel takes n bytes
FramedWrite ==
  /\ Running
  /\ wantsToWrite(mSessions[1])
  /\ \E n \in 1..Len(mSessions[1].mOutBuffer) :
       LET w == writeMore(mSessions[1], <<0>>, n, 0, <<Us(0, 0)>>)
       IN /\ mSessions' = [mSessions EXCEPT ![1] = w.sess]
          /\ wire' = wire \o Take(mSessions[1].mOutBuffer, n)
          /\ posted' = w.notes
          /\ io' = w.last
  /\ UNCHANGED <<engineVars, loopVars, aborted, ret, req, issued, destroyed, tx, rx, stopVars, heapVars>>

\* readMore on the receiving session: recv returns the next n bytes
FramedRead ==
  /\ Running
  /\ wantsToRead(mSessions[2])
  /\ \E n \in 1..Len(wire) :
       /\ n <= kRecvChunk
       /\ LET r == readMore(mSessions[2], <<Got(Take(wire, n))>>)
          IN /\ mSessions' = [mSessions EXCEPT ![2] = r.sess]
             /\ rx' = rx \o DataOf(r.notes)
             /\ posted' = r.notes
             /\ io' = Call(2, "recv", 0)
       /\ wire' = Drop(wire, n)
  /\ UNCHANGED <<engineVars, loopVars, aborted, ret, req, issued, destroyed, tx, stopVars, heapVars>>

NextFraming ==
  \/ FramedSend
  \/ FramedWrite
  \/ FramedRead
  \/ Return

SpecFraming == InitFraming /\ [][NextFraming]_vars


----------------------------------------------------------------------------
(* Scenario: accepted children.  Control threads create listeners, and     *)
(* send on and destroy sessions by ID, while the I/O thread accepts        *)
(* connections: every session that is not a listener is an accepted child. *)

CreateListener == \E mode \in {kModeCreateRTSPServer, kModeCreateTCPDatagramSessionPassive} : createClientOrServer(mode, FALSE, "none", FALSE)

NextChildren ==
  \/ Start
  \/ CreateListener
  \/ Destroy
  \/ Send
  \/ BuildSets
  \/ WakeListeners
  \/ Lock
  \/ Skip
  \/ AcceptChild
  \/ AddStaged
  \/ Return

SpecChildren == Init /\ [][NextChildren]_vars

----------------------------------------------------------------------------
(* Scenario: datagrams.  A UDP session is fed by sendRequest and drained   *)
(* by writeMore; tx holds the payloads in the order they were enqueued,    *)
(* wire the datagrams send() took, each with the clock reading of its pass *)
(* through the stamping code.                                              *)

\* sendRequest calls made in the scenario
MaxDatagrams == 3

InitDatagram ==
  /\ mSessions = Add(<<>>, Established(1, DATAGRAM, FALSE, 0))
  /\ mNextSessionID = 2
  /\ issued = <<1>>
  /\ openFds = {0}
  /\ mThread = FALSE
  /\ mPipeFd = <<-1, -1>>
  /\ pipeBytes = 0
  /\ pc = "none"
  /\ rs = {}
  /\ ws = {}
  /\ res = 0
  /\ idx = 0
  /\ sessionsToAdd = <<>>
  /\ aborted = FALSE
  /\ ret = NoRet
  /\ posted = <<>>
  /\ io = NoCall
  /\ req = NoReq
  /\ destroyed = {}
  /\ tx = <<>>
  /\ wire = <<>>
  /\ rx = <<>>
  /\ mExitPending = FALSE
  /\ writer = NoWriter
  /\ stopping = "none"
  /\ overrun = FALSE

\* what callers enqueue: RTP packets of payload type 33 (one with the
\* marker bit set, one of eight bytes only), an RTP packet of another
\* payload type, a datagram whose first byte is not 0x80, and an empty one
DatagramSends ==
  { Req(<<128, 33, 0, 1, 17, 18, 19, 20, 21, 22, 23, 24>>, 12),
    Req(<<128, 161, 0, 2, 33, 34, 35, 36>>, 8),
    Req(<<128, 96, 0, 3, 49, 50, 51, 52, 53>>, 9),
    Req(<<129, 33, 0, 4, 65, 66, 67, 68>>, 8),
    Req(<<>>, 0) }

\* clock readings: zero, below one tick, a carry out of the lower half, the
\* last reading before rtpTime wraps around 2^32 and the two after it
SendTimes == {Us(0, 0), Us(0, 99), Us(7282, 0), Us(477218588, 0), Us(477218588, 99), Us(477218589, 0)}

\* the monotonic clock does not go back
NotAfter(s, t) == s.hundreds < t.hundreds \/ (s.hundreds = t.hundreds /\ s.rest <= t.rest)

\* the readings of one writeMore call, one for each send
ClockReadings(len) == {now \in [1..len -> SendTimes] : \A j \in 1..(len - 1) : NotAfter(now[j], now[j + 1])}

\* the errnos of one writeMore call: k sends succeed, the next fails with e
DatagramErrnos(len) == {ErrSeq(len, k, e) : k \in 0..len, e \in {EAGAIN, ECONNRESET}}

\* sendRequest on the UDP session
DatagramSend ==
  /\ Running
  /\ Len(tx) < MaxDatagrams
  /\ \E d \in DatagramSends :
       /\ sendRequest(1, d.data, d.size)
       /\ tx' = Append(tx, PayloadOf(d))
  /\ UNCHANGED <<wire, rx, stopVars, heapVars>>

\* writeMore on the UDP session, which threadLoop calls when the session
\* wants to write and its socket is writable
DatagramWrite ==
  /\ Running
  /\ wantsToWrite(mSessions[1])
  /\ \E ee \in DatagramErrnos(Len(mSessions[1].mOutDatagrams)), nowUs \in ClockReadings(Len(mSessions[1].mOutDatagrams)) :
       LET w == writeMore(mSessions[1], ee, 0, 0, nowUs)
           sent == SendDatagrams(mSessions[1].mOutDatagrams, ee, nowUs).sent
       IN /\ mSessions' = [mSessions EXCEPT ![1] = w.sess]
          /\ wire' = wire \o [j \in 1..Len(sent) |-> [data |-> sent[j], nowUs |-> nowUs[j]]]
          /\ posted' = w.notes
          /\ io' = w.last
          /\ overrun' = (overrun \/ w.overrun)
  /\ UNCHANGED <<engineVars, loopVars, aborted, ret, req, issued, destroyed, tx, rx, stopVars>>

\* an access outside the buffer is undefined: the process may go on as if
\* nothing had happened, or die of it (a fault, or the allocator finding
\* its bookkeeping overwritten)
HeapFault ==
  /\ Running
  /\ overrun
  /\ aborted' = TRUE
  /\ UNCHANGED <<mSessions, engineVars, loopVars, ret, posted, io, issued, destroyed, quietVars>>

NextDatagram ==
  \/ DatagramSend
  \/ DatagramWrite
  \/ HeapFault
  \/ Return

SpecDatagram == InitDatagram /\ [][NextDatagram]_vars

----------------------------------------------------------------------------
(* Scenario: short datagrams.  The UDP session of the datagram scenario is *)
(* fed datagrams of fewer than eight bytes.  sendRequest copies each into  *)
(* an ABuffer of exactly its size, so that whatever the stamping code      *)
(* touches at or past that size lies outside the buffer.                   *)

\* sendRequest calls made in the scenario
MaxShort == 2

\* what callers enqueue: nothing, the byte 0x80 alone, the two bytes the
\* test looks for alone, the same followed by three and by five bytes, and
\* short datagrams the test rejects
ShortSends ==
  { Req(<<>>, 0),
    Req(<<128>>, 1),
    Req(<<128, 33>>, 2),
    Req(<<128, 33, 0, 1, 17>>, 5),
    Req(<<128, 161, 0, 2, 33, 34, 35>>, 7),
    Req(<<128, 96, 0, 3>>, 4),
    Req(<<71>>, 1) }

\* sendRequest on the UDP session
ShortSend ==
  /\ Running
  /\ Len(tx) < MaxShort
  /\ \E d \in ShortSends :
       /\ sendRequest(1, d.data, d.size)
       /\ tx' = Append(tx, PayloadOf(d))
  /\ UNCHANGED <<wire, rx, stopVars, heapVars>>

NextShort ==
  \/ ShortSend
  \/ DatagramWrite
  \/ HeapFault
  \/ Return

SpecShort == InitDatagram /\ [][NextShort]_vars

----------------------------------------------------------------------------
(* Scenario: zero-length datagrams.  UDP allows a datagram without         *)
(* payload: send() of it returns 0 and recvfrom() of it returns 0.  The    *)
(* UDP session of the datagram scenario sends and receives datagrams, the  *)
(* empty one among them.                                                   *)

\* sendRequest calls made, and datagrams delivered, in the scenario
MaxZero == 2

\* what callers enqueue: an empty datagram and one of two bytes
ZeroSends == { Req(<<>>, 0), Req(<<71, 72>>, 2) }

\* sendRequest on the UDP session
ZeroSend ==
  /\ Running
  /\ Len(tx) < MaxZero
  /\ \E d \in ZeroSends :
       /\ sendRequest(1, d.data, d.size)
       /\ tx' = Append(tx, PayloadOf(d))
  /\ UNCHANGED <<wire, rx, stopVars, heapVars>>

\* readMore on the UDP session, which threadLoop calls when the session
\* wants to read and its socket is readable: recvfrom gives rr, its last
\* result being the one that ends the loop
DatagramRead ==
  /\ Running
  /\ wantsToRead(mSessions[1])
  /\ Len(rx) < MaxZero
  /\ \E rr \in DatagramRecvResults :
       LET r == readMore(mSessions[1], rr)
       IN /\ mSessions' = [mSessions EXCEPT ![1] = r.sess]
          /\ rx' = rx \o DataOf(r.notes)
          /\ posted' = r.notes
          /\ io' = Call(1, "recvfrom", rr[Len(rr)].errno)
  /\ UNCHANGED <<engineVars, loopVars, aborted, ret, req, issued, destroyed, tx, wire, stopVars, heapVars>>

NextZero ==
  \/ ZeroSend
  \/ DatagramWrite
  \/ DatagramRead
  \/ HeapFault
  \/ Return

SpecZero == InitDatagram /\ [][NextZero]_vars

----------------------------------------------------------------------------
(* Scenario: interleaved binary data.  The peer of a connected RTSP        *)
(* session sends a stream of units, "$" frames and RTSP messages; recv     *)
(* hands the bytes over in pieces of any size.  tx holds the units sent,   *)
(* wire the bytes not yet received, rx the notifications posted so far.    *)

\* units in one stream
MaxUnits == 3

\* the payload of the one long frame: its length needs both length bytes
kLongPayload == 256

BinaryUnit(channel, data) == [binary |-> TRUE, channel |-> channel, data |-> data]
MessageUnit(bytes) == [binary |-> FALSE, channel |-> 0, data |-> bytes]

\* the bytes of a unit on the connection: "$", the channel, the length of
\* the payload as 16 bits, most significant byte first, and the payload
Encode(unit) ==
  IF unit.binary
  THEN <<kDollar, unit.channel, Len(unit.data) \div 256, Len(unit.data) % 256>> \o unit.data
  ELSE unit.data

RECURSIVE EncodeAll(_)
EncodeAll(units) == IF units = <<>> THEN <<>> ELSE Encode(Head(units)) \o EncodeAll(Tail(units))

\* frames without payload, with a payload that holds "$" and the byte that
\* ends a message, on a channel above 127, and a message
InterleavedUnits ==
  { BinaryUnit(0, <<>>),
    BinaryUnit(1, <<kDollar, kEndOfMessage>>),
    BinaryUnit(200, <<7>>),
    MessageUnit(<<65, kEndOfMessage>>) }

InterleavedStreams ==
  UNION {[1..len -> InterleavedUnits] : len \in 1..MaxUnits}
    \cup {<<BinaryUnit(2, [j \in 1..kLongPayload |-> j % 256])>>}

\* a connected RTSP session whose peer has sent the units
InitStream(units) ==
  /\ mSessions = Add(<<>>, Established(1, CONNECTED, TRUE, 0))
  /\ mNextSessionID = 2
  /\ issued = <<1>>
  /\ openFds = {0}
  /\ mThread = FALSE
  /\ mPipeFd = <<-1, -1>>
  /\ pipeBytes = 0
  /\ pc = "none"
  /\ rs = {}
  /\ ws = {}
  /\ res = 0
  /\ idx = 0
  /\ sessionsToAdd = <<>>
  /\ aborted = FALSE
  /\ ret = NoRet
  /\ posted = <<>>
  /\ io = NoCall
  /\ req = NoReq
  /\ destroyed = {}
  /\ tx = units
  /\ wire = EncodeAll(units)
  /\ rx = <<>>
  /\ mExitPending = FALSE
  /\ writer = NoWriter
  /\ stopping = "none"
  /\ overrun = FALSE

InitInterleaved == \E units \in InterleavedStreams : InitStream(units)

\* readMore on the RTSP session, which threadLoop calls when the session
\* wants to read and its socket is readable: recv returns the next n bytes
RtspRead ==
  /\ Running
  /\ wantsToRead(mSessions[1])
  /\ \E n \in 1..Len(wire) :
       /\ n <= kRecvChunk
       /\ LET r == readMore(mSessions[1], <<Got(Take(wire, n))>>)
          IN /\ mSessions' = [mSessions EXCEPT ![1] = r.sess]
             /\ rx' = rx \o r.notes
             /\ posted' = r.notes
             /\ io' = Call(1, "recv", 0)
       /\ wire' = Drop(wire, n)
  /\ UNCHANGED <<engineVars, loopVars, aborted, ret, req, issued, destroyed, tx, stopVars, heapVars>>

NextInterleaved ==
  \/ RtspRead
  \/ Return

SpecInterleaved == InitInterleaved /\ [][NextInterleaved]_vars

----------------------------------------------------------------------------
(* Scenario: wfd_idr_request.  The peer of the RTSP session sends messages *)
(* whose content is "wfd_idr_request\r\n", announced as 17 bytes, with or  *)
(* without a further "\r\n" behind them, among other units.               *)

\* the message: its header announces the 17 bytes of content that follow
kIdrMessage == <<kContentLength, Len(kIdrRequest), kEndOfMessage>> \o kIdrRequest

\* pieces of a stream: the message, CR LF, CR alone, a message with other
\* content, a message without content and a "$" frame
IdrUnits ==
  { MessageUnit(kIdrMessage),
    MessageUnit(<<13, 10>>),
    MessageUnit(<<13>>),
    MessageUnit(<<kContentLength, 2, kEndOfMessage, 119, 102>>),
    MessageUnit(<<65, kEndOfMessage>>),
    BinaryUnit(0, <<>>) }

IdrStreams == UNION {[1..len -> IdrUnits] : len \in 1..MaxUnits}

InitIdr == \E units \in IdrStreams : InitStream(units)

SpecIdr == InitIdr /\ [][NextInterleaved]_vars

----------------------------------------------------------------------------
(* Scenario: dispatch.  Control threads create, feed and destroy UDP       *)
(* sessions while the I/O thread runs its loop with every readiness select *)
(* can report: several sessions ready at once, a socket ready for reading  *)
(* and writing, and sessions destroyed between select's return and the     *)
(* dispatch pass.  No socket call fails.                                   *)

CreateUDP == \E hasRemote \in BOOLEAN : createClientOrServer(kModeCreateUDPSession, hasRemote, "none", FALSE)

\* readMore: nothing to receive after all, or one datagram and then nothing
ReadDatagrams == \E rr \in {<<Failed(EAGAIN)>>, <<Got(<<1>>), Failed(EAGAIN)>>} : Read(rr)

\* writeMore: the sends succeed
WriteDatagrams == \E nowUs \in Clock : Write(<<0>>, 0, 0, <<nowUs>>)

NextDispatch ==
  \/ Start
  \/ CreateUDP
  \/ Destroy
  \/ Send
  \/ BuildSets
  \/ Wake
  \/ SelectFails
  \/ Lock
  \/ Skip
  \/ ReadDatagrams
  \/ WriteDatagrams
  \/ AddStaged
  \/ Return

SpecDispatch == Init /\ [][NextDispatch]_vars

----------------------------------------------------------------------------
(* Scenario: the wake pipe.  Control threads start and stop the engine and *)
(* create, feed and destroy UDP sessions while no socket ever becomes      *)
(* ready, so that the I/O thread is woken by the pipe alone.  A control    *)
(* call that finds the pipe full blocks in interrupt().                    *)

WakeCreate == MutexFree /\ createClientOrServer(kModeCreateUDPSession, FALSE, "none", FALSE)

WakeSend == MutexFree /\ Send

WakeSendBlocks ==
  \E id \in DOMAIN mSessions, d \in EngineSends :
    /\ sendRequestBlocks(id, d.data, d.size)
    /\ Fits(mSessions'[id])

WakeDestroy == MutexFree /\ Destroy

WakeStart == start(TRUE, TRUE)

\* the first block of threadLoop takes mLock; it is run only if exit has
\* not been requested
WakeBuild == MutexFree /\ ~mExitPending /\ BuildSets

\* select returns because the wake pipe is readable
WakePipe == Select({mPipeFd[1]}, {})

WakeLock == MutexFree /\ Lock

\* what the I/O thread does on its own
WakeThread == WakeBuild \/ threadExits \/ WakePipe \/ WakeLock \/ AddStaged

NextWake ==
  \/ WakeStart
  \/ stop
  \/ stopInterruptCompletes
  \/ stopJoined
  \/ WakeCreate
  \/ WakeSend
  \/ WakeSendBlocks
  \/ interruptCompletes
  \/ WakeDestroy
  \/ WakeBuild
  \/ threadExits
  \/ WakePipe
  \/ WakeLock
  \/ AddStaged
  \/ Return

\* fair scheduling: a step of the I/O thread, a write() the pipe has room
\* for and the join of an exited thread happen if they are possible again
\* and again (a step is not possible while the previous step's outputs are
\* being taken, hence strong fairness); the outputs are always taken
WakeFairness ==
  /\ SF_vars(WakeThread)
  /\ SF_vars(interruptCompletes)
  /\ SF_vars(stopInterruptCompletes)
  /\ SF_vars(stopJoined)
  /\ WF_vars(Return)

SpecWake == Init /\ [][NextWake]_vars /\ WakeFairness

----------------------------------------------------------------------------
(* Properties *)

Range(s) == {s[j] : j \in DOMAIN s}

IsPrefix(a, b) == Len(a) <= Len(b) /\ SubSeq(b, 1, Len(a)) = a

StagedIDs == {sessionsToAdd[j].mSessionID : j \in DOMAIN sessionsToAdd}

\* every session object alive: in the map or staged by the dispatch loop
LiveIDs == DOMAIN mSessions \cup StagedIDs

C2_ReadinessState ==
  \A k \in DOMAIN mSessions :
    LET s == mSessions[k] IN
    /\ s.mSawSendFailure => ~wantsToWrite(s)
    /\ s.mSawReceiveFailure => ~wantsToRead(s)
    /\ wantsToRead(s) <=> (~s.mSawReceiveFailure /\ s.mState # CONNECTING)
    /\ wantsToWrite(s) <=> (~s.mSawSendFailure /\ (s.mState = CONNECTING \/ (s.mState = CONNECTED /\ Len(s.mOutBuffer) > 0) \/ (s.mState = DATAGRAM /\ Len(s.mOutDatagrams) > 0)))

C2_ReadinessSets ==
  (pc = "build" /\ pc' = "select") =>
    /\ rs' \ {mPipeFd[1]} = {mSessions[k].mSocket : k \in {j \in DOMAIN mSessions : ~mSessions[j].mSawReceiveFailure /\ mSessions[j].mState # CONNECTING}}
    /\ ws' = {mSessions[k].mSocket : k \in {j \in DOMAIN mSessions : ~mSessions[j].mSawSendFailure /\ (mSessions[j].mState = CONNECTING \/ (mSessions[j].mState = CONNECTED /\ Len(mSessions[j].mOutBuffer) > 0) \/ (mSessions[j].mState = DATAGRAM /\ Len(mSessions[j].mOutDatagrams) > 0))}}

C2_Readiness == []C2_ReadinessState /\ [][C2_ReadinessSets]_vars

\* a session whose send failed with bytes left to send, as the I/O thread has
\* built its sets without it
C2_Witness ==
  /\ pc = "select"
  /\ \E k \in DOMAIN mSessions :
       /\ mSessions[k].mSawSendFailure
       /\ mSessions[k].mState = CONNECTED
       /\ mSessions[k].mOutBuffer # <<>>
       /\ mSessions[k].mSocket \notin ws

\* C3: length-prefix round trip.  Whatever the transport's splits, the
\* payloads the receiver has been notified of are the first payloads sent,
\* in order, and once every byte sent has been received they are exactly the
\* payloads sent.
C3_RoundTrip ==
  /\ IsPrefix(rx, tx)
  /\ (Quiet /\ mSessions[1].mOutBuffer = <<>> /\ wire = <<>>) => rx = tx

\* the bytes a step appended to the outbound buffer of session 1
Appended == Drop(mSessions'[1].mOutBuffer, Len(mSessions[1].mOutBuffer))

\* a sendRequest call on session 1, a connected length-prefix session, returned
AcceptedPrefixedSend ==
  /\ req'.made
  /\ ret' = Ret("send", 1, OK)
  /\ mSessions[1].mState = CONNECTED
  /\ ~mSessions[1].mIsRTSPConnection

\* C4: an accepted sendRequest(data, size) on a connected length-prefix
\* session appends the bytes size >> 8 and size & 0xff and then the payload,
\* and the 16-bit prefix equals the number of payload bytes that follow it.
C4_PrefixedFrame ==
  [][AcceptedPrefixedSend =>
       /\ IsPrefix(mSessions[1].mOutBuffer, mSessions'[1].mOutBuffer)
       /\ Len(Appended) >= 2
       /\ Appended[1] = (req'.size \div 256) % 256
       /\ Appended[2] = req'.size % 256
       /\ Drop(Appended, 2) = PayloadOf(req')
       /\ U16_AT(Appended, 0) = Len(Appended) - 2]_vars

\* a sendRequest call with a payload of the given size on session 1, a
\* connected length-prefix session
PrefixedSendOf(size) ==
  /\ req'.made
  /\ req'.size = size
  /\ Len(req'.data) = size
  /\ mSessions[1].mState = CONNECTED
  /\ ~mSessions[1].mIsRTSPConnection

\* as claimed: 65535 bytes are accepted; 65536 bytes are rejected with an
\* error returned, nothing appended, and the engine running as before
C5_RejectedAndRunning ==
  [][/\ PrefixedSendOf(65535) => ret' = Ret("send", 1, OK) /\ Appended = <<255, 255>> \o req'.data
     /\ PrefixedSendOf(65536) => ret'.op = "send" /\ ret'.err # OK /\ mSessions' = mSessions /\ ~aborted']_vars

\* C5: sendRequest on a connected length-prefix session accepts a payload of
\* 65535 bytes (appending FF FF and the payload); for a payload of 65536
\* bytes it appends nothing and leaves every session as it was, but it does
\* so by a failed CHECK: the call does not return and the process is gone.
C5_Limit ==
  [][/\ PrefixedSendOf(65535) => ret' = Ret("send", 1, OK) /\ ~aborted' /\ Appended = <<255, 255>> \o req'.data
     /\ PrefixedSendOf(65536) => ret' = NoRet /\ aborted' /\ mSessions' = mSessions /\ mNextSessionID' = mNextSessionID]_vars

\* a call with 65536 bytes has been made on a session that had accepted a
\* payload before
C5_Witness ==
  /\ aborted
  /\ req.made /\ req.size = 65536
  /\ mSessions[1].mOutBuffer # <<>>
  /\ mSessions[1].mState = CONNECTED /\ ~mSessions[1].mIsRTSPConnection

\* the step made socket calls for a session, the last of which failed with EAGAIN
EagainStep(call) == io'.call = call /\ io'.errno = EAGAIN /\ io'.sessionID \in DOMAIN mSessions

\* C6: EAGAIN from recv, send, recvfrom or a datagram send is benign: the
\* step posts no Error, sets neither failure flag and leaves the inbound
\* buffer, the outbound buffer and what is still queued as they were (the
\* datagrams sent before the EAGAIN are gone from the queue).
C6_EagainBenign ==
  [][(EagainStep("recv") \/ EagainStep("send") \/ EagainStep("recvfrom")) =>
       LET s == mSessions[io'.sessionID]
           t == mSessions'[io'.sessionID]
       IN /\ \A j \in DOMAIN posted' : posted'[j].reason # "Error"
          /\ t.mSawReceiveFailure = s.mSawReceiveFailure
          /\ t.mSawSendFailure = s.mSawSendFailure
          /\ t.mInBuffer = s.mInBuffer
          /\ t.mOutBuffer = s.mOutBuffer
          /\ \E k \in 0..Len(s.mOutDatagrams) : t.mOutDatagrams = Drop(s.mOutDatagrams, k)]_vars

C8_State ==
  \A k \in DOMAIN mSessions :
    mSessions[k].mState = CONNECTING =>
      /\ ~wantsToRead(mSessions[k])
      /\ mSessions[k].mSawSendFailure => ~wantsToWrite(mSessions[k])

C8_Step ==
  /\ \A k \in DOMAIN mSessions \cap DOMAIN mSessions' :
       /\ mSessions'[k].mState # mSessions[k].mState =>
            /\ mSessions[k].mState = CONNECTING
            /\ mSessions'[k].mState = CONNECTED
            /\ io' = Call(k, "getsockopt", 0)
       /\ (mSessions[k].mState = CONNECTING /\ mSessions[k].mSawSendFailure) =>
            (mSessions'[k].mState = CONNECTING /\ mSessions'[k].mSawSendFailure)
  /\ io'.call = "getsockopt" =>
       /\ mSessions[io'.sessionID].mState = CONNECTING
       /\ io'.errno = 0 => mSessions'[io'.sessionID].mState = CONNECTED
       /\ io'.errno # 0 => mSessions'[io'.sessionID].mState = CONNECTING /\ mSessions'[io'.sessionID].mSawSendFailure
  /\ (pc = "build" /\ pc' = "select") =>
       \A k \in DOMAIN mSessions : mSessions[k].mState = CONNECTING =>
         /\ mSessions[k].mSocket \notin rs'
         /\ mSessions[k].mSocket \in ws' <=> ~mSessions[k].mSawSendFailure

C8_Connecting == []C8_State /\ [][C8_Step]_vars

\* a session whose connect failed, as the I/O thread waits without its socket
C8_Witness ==
  /\ pc = "select"
  /\ \E k \in DOMAIN mSessions :
       /\ mSessions[k].mState = CONNECTING
       /\ mSessions[k].mSawSendFailure
       /\ mSessions[k].mSocket \notin rs \cup ws

\* C9: destroySession, sendRequest and connectUDPSession given an ID that is
\* not in the session map return -ENOENT and leave the map, every session,
\* the staged sessions and mNextSessionID as they were; so destroySession of
\* an ID already destroyed returns -ENOENT.
C9_NotFound ==
  [][/\ (ret'.op \in {"destroy", "send", "connectUDP"} /\ ret'.sessionID \notin DOMAIN mSessions) =>
          /\ ret'.err = -ENOENT
          /\ mSessions' = mSessions
          /\ sessionsToAdd' = sessionsToAdd
          /\ mNextSessionID' = mNextSessionID
          /\ openFds' = openFds
          /\ ~aborted'
     /\ (ret'.op = "destroy" /\ ret'.sessionID \in destroyed) => ret'.err = -ENOENT
     /\ (ret'.op = "destroy" /\ ret'.err = OK) => ret'.sessionID \in DOMAIN mSessions \ DOMAIN mSessions']_vars

\* a second destroySession of an ID has returned -ENOENT while another
\* session is in the map
C9_Witness ==
  /\ ret = Ret("destroy", ret.sessionID, -ENOENT)
  /\ ret.sessionID \in destroyed
  /\ mSessions # <<>>

\* C10: a create call that returns an error reports session ID 0, has
\* inserted and staged no session, has constructed none (mNextSessionID is
\* unchanged) and has left no descriptor open that was not open before.
C10_FailedCreate ==
  [][(ret'.op = "create" /\ ret'.err # OK) =>
       /\ ret'.sessionID = 0
       /\ mSessions' = mSessions
       /\ sessionsToAdd' = sessionsToAdd
       /\ mNextSessionID' = mNextSessionID
       /\ issued' = issued
       /\ openFds' = openFds
       /\ ~aborted']_vars

\* a create call has failed at hostname resolution, after its socket was
\* opened, while other sessions exist
C10_Witness ==
  /\ ret = Ret("create", 0, -HOST_NOT_FOUND)
  /\ mSessions # <<>>
  /\ FreeFds # {}


\* C11: a failure flag, once set, stays set as long as the session is in the
\* map; when the I/O thread builds its sets, the socket of a session that saw
\* a receive failure is not in the read set and that of a session that saw a
\* send failure is not in the write set; and a session leaves the map only in
\* a destroySession call for its ID that returns OK.
C11_Step ==
  /\ \A k \in DOMAIN mSessions :
       /\ k \in DOMAIN mSessions' =>
            /\ mSessions[k].mSawReceiveFailure => mSessions'[k].mSawReceiveFailure
            /\ mSessions[k].mSawSendFailure => mSessions'[k].mSawSendFailure
       /\ k \notin DOMAIN mSessions' => ret' = Ret("destroy", k, OK)
  /\ (pc = "build" /\ pc' = "select") =>
       \A k \in DOMAIN mSessions :
         /\ mSessions[k].mSawReceiveFailure => mSessions[k].mSocket \notin rs'
         /\ mSessions[k].mSawSendFailure => mSessions[k].mSocket \notin ws'

C11_StickyFlags == [][C11_Step]_vars

\* a connected session that saw a receive failure and a send failure is still
\* in the map while the I/O thread waits without its socket
C11_Witness ==
  /\ pc = "select"
  /\ \E k \in DOMAIN mSessions :
       /\ mSessions[k].mState = CONNECTED
       /\ mSessions[k].mSawReceiveFailure
       /\ mSessions[k].mSawSendFailure
       /\ mSessions[k].mSocket \notin rs \cup ws

\* the sets the I/O thread is waiting on are those of the session map as
\* it is now
UpToDate == pc = "select" /\ rs = {mPipeFd[1]} \cup SocketsToRead /\ ws = SocketsToWrite

\* a createSession, sendRequest or destroySession call has just returned OK
\* on a started engine that has not been asked to stop
MutationReturned == ret.op \in {"create", "send", "destroy"} /\ ret.err = OK /\ mThread /\ ~mExitPending

\* C12: no wake-up is lost: after a successful create, sendRequest or
\* destroySession call has returned, the I/O thread, under fair scheduling
\* and with no socket becoming ready, eventually waits on sets rebuilt from
\* the mutated session map (unless the engine is stopped meanwhile).
C12_NoLostWakeup == MutationReturned ~> (UpToDate \/ ~mThread \/ mExitPending)

\* C13: a stop() call that has begun returns: the exit flag is set, the pipe
\* is poked, the I/O thread finishes at most its current pass and exits,
\* and the join returns, under fair scheduling and with no socket ready.
C13_StopTerminates == (stopping # "none") ~> (stopping = "none")

\* the sockets owned by Session objects, in the map or staged for it
SessionSockets == {mSessions[k].mSocket : k \in DOMAIN mSessions} \cup {sessionsToAdd[j].mSocket : j \in 1..Len(sessionsToAdd)}

\* one I/O thread and one wake pipe at most: the thread exists exactly
\* when mThread is set, the pipe ends are then two open descriptors, and
\* no descriptor is open besides the pipe ends and the sessions' sockets
OneThreadOnePipe ==
  /\ mThread <=> pc # "none"
  /\ mThread => mPipeFd[1] >= 0 /\ mPipeFd[2] >= 0 /\ mPipeFd[1] # mPipeFd[2]
  /\ ~mThread => mPipeFd = <<-1, -1>> /\ ~mExitPending /\ stopping = "none"
  /\ openFds \ SessionSockets = {mPipeFd[1], mPipeFd[2]} \ {-1}

\* start() on a started engine and stop() on an engine that is not started
\* return INVALID_OPERATION and change nothing
C14_Step ==
  /\ (mThread /\ ret'.op = "start") =>
       ret'.err = INVALID_OPERATION /\ UNCHANGED <<mSessions, engineVars, loopVars, stopVars>>
  /\ (~mThread /\ ret'.op = "stop") =>
       ret'.err = INVALID_OPERATION /\ UNCHANGED <<mSessions, engineVars, loopVars, stopVars>>

\* C14: start and stop are idempotent: start() on a started engine and
\* stop() on an engine that is not started leave the engine state
\* unchanged, and the engine never has more than one I/O thread or more
\* than one wake pipe.
C14_Idempotent == []OneThreadOnePipe /\ [][C14_Step]_vars

\* start() has been refused on an engine whose thread is waiting in select
C14_Witness == ret = Ret("start", 0, INVALID_OPERATION) /\ mThread /\ pc = "select"

\* the big-endian bytes of ((now_us * 9) / 100) mod 2^32 for the clock
\* readings of the scenario, worked out by hand:
\*   0 and 99 us give 0 and 8; 728200 us gives 65538 = 0x00010002;
\*   47721858800 us gives 4294967292 = 0xFFFFFFFC; 47721858899 us gives
\*   4294967300 = 2^32 + 4; 47721858900 us gives 4294967301 = 2^32 + 5
RtpTimeBytes(nowUs) ==
  CASE nowUs = Us(0, 0) -> <<0, 0, 0, 0>>
    [] nowUs = Us(0, 99) -> <<0, 0, 0, 8>>
    [] nowUs = Us(7282, 0) -> <<0, 1, 0, 2>>
    [] nowUs = Us(477218588, 0) -> <<255, 255, 255, 252>>
    [] nowUs = Us(477218588, 99) -> <<0, 0, 0, 4>>
    [] nowUs = Us(477218589, 0) -> <<0, 0, 0, 5>>

\* first byte 0x80 and the low seven bits of the second byte equal to 33
MatchesRtpTS(d) == Len(d) >= 2 /\ d[1] = 128 /\ d[2] \in {33, 161}

\* C15: a transmitted datagram whose first byte is 0x80 and whose second
\* byte has low seven bits 33 carries in bytes 4..7 the big-endian value
\* ((now_us * 9) / 100) mod 2^32 of the clock at its transmission and is
\* otherwise as it was enqueued; any other datagram is transmitted exactly
\* as it was enqueued.
C15_RtpStamp ==
  \A j \in 1..Len(wire) :
    /\ j <= Len(tx)
    /\ Len(wire[j].data) = Len(tx[j])
    /\ IF MatchesRtpTS(tx[j])
       THEN /\ SubSeq(wire[j].data, 5, 8) = RtpTimeBytes(wire[j].nowUs)
            /\ SubSeq(wire[j].data, 1, 4) = SubSeq(tx[j], 1, 4)
            /\ SubSeq(wire[j].data, 9, Len(tx[j])) = SubSeq(tx[j], 9, Len(tx[j]))
       ELSE wire[j].data = tx[j]

\* an RTP packet went out after rtpTime had wrapped, behind a datagram that
\* is not such a packet
C15_Witness ==
  \E j \in 1..Len(wire), k \in 1..Len(wire) :
    /\ MatchesRtpTS(tx[j]) /\ wire[j].nowUs = Us(477218589, 0) /\ Len(tx[j]) = 12
    /\ ~MatchesRtpTS(tx[k])

\* this step is the write part of a dispatch iteration: writeMore is called
\* on the session the loop is at
DispatchedForWrite == pc \in {"visit", "visitw"} /\ pc' = "visit" /\ idx' = idx - 1 /\ Current.mSocket \in ws

\* what writeMore asserts of its session
WriteMoreAssertions(sess) ==
  IF sess.mState = DATAGRAM THEN sess.mOutDatagrams # <<>>
  ELSE sess.mState = CONNECTING \/ (sess.mState = CONNECTED /\ sess.mOutBuffer # <<>>)

\* C18: in every interleaving of control calls with the I/O loop, the
\* session dispatched for write is one that wanted to write, so that the
\* assertions of writeMore hold at every invocation, also when a session is
\* destroyed and another created on the same descriptor number while the
\* I/O thread does not hold the lock.
C18_DispatchedAsBuilt == [][DispatchedForWrite => WriteMoreAssertions(Current) /\ ~aborted']_vars

\* the notifications that carry received data
DataReasons == {"Data", "BinaryData", "Datagram"}

\* what a step's notifications must respect: ClientConnected is posted for
\* an ID no session had before (so nothing precedes it), every other
\* notification is for a session already constructed, and none that
\* carries data is for a session still CONNECTING, whose Connected
\* notification is yet to come
C16_Step ==
  \A j \in 1..Len(posted') :
    /\ posted'[j].reason = "ClientConnected" =>
         posted'[j].sessionID \notin Range(issued) /\ posted'[j].sessionID \in Range(issued')
    /\ posted'[j].reason # "ClientConnected" =>
         posted'[j].sessionID \in Range(issued)
    /\ (posted'[j].reason \in DataReasons /\ posted'[j].sessionID \in DOMAIN mSessions) =>
         mSessions[posted'[j].sessionID].mState # CONNECTING

\* C16: for an accepted child, ClientConnected is the first notification
\* carrying its ID; for a client created CONNECTING, no Data, BinaryData or
\* Datagram notification is posted before its Connected notification.
C16_Ordering == [][C16_Step]_vars

\* the two ends of the wake pipe, while it exists
PipeFds == {mPipeFd[1], mPipeFd[2]} \ {-1}

\* the open descriptors besides the wake pipe are exactly the sockets of
\* the sessions in the map or staged for it, one socket for each session
SocketsOwned ==
  /\ openFds \ PipeFds = SessionSockets
  /\ Cardinality(SessionSockets) = Cardinality(DOMAIN mSessions) + Len(sessionsToAdd)

\* a socket is closed only by a destroySession call that returns OK for
\* the session that owns it and takes that session out of the map
C17_Step ==
  \A s \in (openFds \ PipeFds) \ openFds' :
    \E k \in DOMAIN mSessions :
      /\ mSessions[k].mSocket = s
      /\ k \notin DOMAIN mSessions'
      /\ ret' = Ret("destroy", k, OK)

\* C17: every socket the engine opens or accepts is closed exactly once, at
\* the destruction of the session it became the socket of, or at once on
\* the failure path if no session was constructed for it; no socket is
\* closed while its session is in the map and none is left open without a
\* session (as long as no CHECK has ended the process).
C17_SocketsClosedOnce == [](~aborted => SocketsOwned) /\ [][C17_Step]_vars

\* a destroySession call has just closed the socket of its session while an
\* accepted child still owns its own
C17_Witness ==
  /\ ret.op = "destroy" /\ ret.err = OK
  /\ \E k \in DOMAIN mSessions : mSessions[k].mState = CONNECTED /\ mSessions[k].mSocket \in openFds

\* the same datagram but for the four bytes the RTP stamp may rewrite
SameDatagram(a, b) == Len(a) = Len(b) /\ \A p \in 1..Len(a) : p \in 5..8 \/ a[p] = b[p]

\* the datagrams sent are the first ones enqueued, in order and once each;
\* the queue holds the last ones enqueued, in order, and among them every
\* datagram that was not sent
InEnqueueOrder ==
  LET queue == mSessions[1].mOutDatagrams
  IN /\ Len(wire) <= Len(tx)
     /\ \A j \in 1..Len(wire) : SameDatagram(wire[j].data, tx[j])
     /\ Len(tx) - Len(wire) <= Len(queue) /\ Len(queue) <= Len(tx)
     /\ \A j \in 1..Len(queue) : SameDatagram(queue[j], tx[Len(tx) - Len(queue) + j])

\* a writeMore call on the session: a send that returns EAGAIN stops the
\* pass, sets no flag and posts nothing; one that fails otherwise sets the
\* send failure and posts one Error(send = TRUE) with its errno; and once
\* the send failure is set nothing is transmitted and nothing is posted
C19_Step ==
  /\ (io'.call = "send" /\ io'.errno = EAGAIN) =>
       /\ ~mSessions'[1].mSawSendFailure
       /\ posted' = <<>>
       /\ mSessions'[1].mOutDatagrams # <<>>
  /\ (io'.call = "send" /\ io'.errno \notin {0, EAGAIN}) =>
       /\ mSessions'[1].mSawSendFailure
       /\ posted' = <<Note("Error", 1, TRUE, -io'.errno, 0, <<>>)>>
  /\ mSessions[1].mSawSendFailure =>
       /\ wire' = wire
       /\ posted' = <<>>
       /\ mSessions'[1].mSawSendFailure

\* C19: datagrams are transmitted in enqueue order, each at most once, and
\* leave the queue only when their send succeeded; EAGAIN stops the pass
\* with the rest still queued in order and no failure flag; any other
\* error sets the send failure, posts exactly one Error(send = TRUE), and
\* the remaining datagrams are never transmitted.
C19_DatagramOrder == []InEnqueueOrder /\ [][C19_Step]_vars

\* a send has just failed with ECONNRESET after an earlier datagram went
\* out, and one more is still queued
C19_Witness ==
  /\ io = Call(1, "send", ECONNRESET)
  /\ wire # <<>>
  /\ Len(mSessions[1].mOutDatagrams) >= 2
  /\ mSessions[1].mSawSendFailure

\* the I/O thread is inside its dispatch loop, holding the lock
Iterating == pc \in {"visit", "visitw"}

\* while the I/O thread iterates, the map keeps its keys; when it leaves the
\* loop the staged children are all added before the lock is released; and
\* a control call made with the ID of a session that was constructed (whose
\* ClientConnected, if it is an accepted child, has therefore been posted)
\* and not destroyed since does not report "not found"
C20_Step ==
  /\ (Iterating /\ pc' \in {"visit", "visitw"}) => DOMAIN mSessions' = DOMAIN mSessions
  /\ (Iterating /\ pc' \notin {"visit", "visitw"}) =>
       /\ DOMAIN mSessions' = DOMAIN mSessions \cup StagedIDs
       /\ sessionsToAdd' = <<>>
  /\ (ret'.op \in {"destroy", "send", "connectUDP"} /\ ret'.sessionID \in Range(issued) \ destroyed) =>
       ret'.err # -ENOENT

\* C20: accepted children are staged, and added to the map only after the
\* dispatch iteration of the pass and before the lock is released: the map
\* is not modified while the I/O thread iterates it, and a control call
\* with a child's ID from its ClientConnected notification finds the
\* session unless it has been destroyed since.
C20_StagedChildren == [](sessionsToAdd # <<>> => Iterating) /\ [][C20_Step]_vars

\* a sendRequest call has just found an accepted child by its ID, while the
\* listener it came from is still in the map
C20_Witness ==
  /\ ret.op = "send" /\ ret.err = OK
  /\ ret.sessionID \in DOMAIN mSessions
  /\ mSessions[ret.sessionID].mState = CONNECTED
  /\ \E k \in DOMAIN mSessions : isRTSPServer(mSessions[k]) \/ isTCPDatagramServer(mSessions[k])

\* the datagrams a step put on the wire are, byte for byte, those enqueued
\* when these were shorter than eight bytes.  (The datagrams ahead of the
\* queue in tx have been sent and erased.)
C26_Step ==
  \A j \in 1..(Len(wire') - Len(wire)) :
    LET enqueued == tx[Len(tx) - Len(mSessions[1].mOutDatagrams) + j]
    IN Len(enqueued) < 8 => wire'[Len(wire) + j].data = enqueued

\* C26: the RTP stamp reads and writes only bytes inside the datagram: a
\* queued datagram shorter than eight bytes is sent byte for byte unchanged,
\* and no byte at or beyond the datagram's length is read or written.
C26_StampInBounds == [][C26_Step /\ ~overrun']_vars

NoError(notes) == \A j \in 1..Len(notes) : notes[j].reason # "Error"

\* a pass whose last send() did not fail has sent and popped everything
\* queued, and a pass whose last recvfrom() did not fail has delivered what
\* it received, an empty datagram as a Datagram with empty data; neither
\* sets a failure flag or posts Error
C27_Step ==
  /\ (io'.call = "send" /\ io'.errno = 0) =>
       /\ mSessions'[1].mOutDatagrams = <<>>
       /\ ~mSessions'[1].mSawSendFailure
       /\ NoError(posted')
  /\ (io'.call = "recvfrom" /\ io'.errno = 0) =>
       /\ ~mSessions'[1].mSawReceiveFailure
       /\ NoError(posted')
       /\ posted' # <<>>
       /\ posted'[Len(posted')] = Note("Datagram", 1, FALSE, 0, 0, <<>>)

\* C27: zero-byte results are a connection reset on stream sessions only:
\* on a Datagram session a zero-length datagram enqueued is sent and popped,
\* and one received is delivered as a Datagram notification with empty
\* data; neither sets a failure flag nor posts Error.
C27_ZeroLengthDatagrams == [][C27_Step]_vars

\* the bytes received so far, and the units that lie wholly within them
Received == Take(EncodeAll(tx), Len(EncodeAll(tx)) - Len(wire))
WhollyReceived == CHOOSE k \in 0..Len(tx) :
  /\ Len(EncodeAll(Take(tx, k))) <= Len(Received)
  /\ k < Len(tx) => Len(EncodeAll(Take(tx, k + 1))) > Len(Received)

\* what a unit is posted as
PostedAs(unit) == Note(IF unit.binary THEN "BinaryData" ELSE "Data", 1, FALSE, 0, unit.channel, unit.data)

\* C21: on an RTSP stream session, however the inbound bytes are split
\* across reads, each "$" frame produces exactly one BinaryData
\* notification with the channel byte as channel and the L payload bytes
\* as data (empty when L = 0); it is posted only once all 4 + L bytes are
\* buffered, exactly 4 + L bytes are consumed, and the bytes after the
\* frame stay in the buffer in order.
C21_InterleavedFrames ==
  /\ rx = [j \in 1..WhollyReceived |-> PostedAs(tx[j])]
  /\ mSessions[1].mInBuffer = Drop(Received, Len(EncodeAll(Take(tx, WhollyReceived))))

\* a read has just completed a frame without payload, the second unit of
\* its stream (an earlier read delivered the first), and has brought the
\* first two bytes of the next frame, which stay in the buffer
C21_Witness ==
  /\ posted = <<Note("BinaryData", 1, FALSE, 0, 0, <<>>)>>
  /\ Len(rx) = 2
  /\ mSessions[1].mInBuffer = <<kDollar, 200>>
  /\ Len(wire) = 3

\* the buffer a read step parses: what was buffered and what recv brought
Parsed == mSessions[1].mInBuffer \o Take(wire, Len(wire) - Len(wire'))

\* the bytes by which the claim says the buffer is advanced
C22_Advance(buf) ==
  IF /\ Len(buf) >= Len(kIdrMessage) + 2
     /\ buf[Len(kIdrMessage) + 1] = 13
     /\ buf[Len(kIdrMessage) + 2] = 10
  THEN Len(kIdrMessage) + 2
  ELSE Len(kIdrMessage)

\* a read that finds the message at the head of the buffer posts one Data
\* for it and goes on with the buffer advanced as the claim says
C22_Step ==
  (/\ io'.call = "recv"
   /\ Len(Parsed) >= Len(kIdrMessage)
   /\ Take(Parsed, Len(kIdrMessage)) = kIdrMessage) =>
    LET rest == DrainRtsp(mSessions[1], Drop(Parsed, C22_Advance(Parsed)), OK)
    IN /\ C22_Advance(Parsed) <= Len(Parsed)
       /\ posted' = <<Note("Data", 1, FALSE, 0, 0, kIdrMessage)>> \o rest.notes
       /\ mSessions'[1].mInBuffer = rest.buf

\* C22: the wfd_idr_request quirk: after the parser returns a message of
\* consumed length n whose content begins with the 17 bytes
\* "wfd_idr_request\r\n", the buffer is advanced by n + 2 if the bytes at
\* positions n and n + 1 are CR LF, and by exactly n otherwise; exactly one
\* Data is posted for the message, and the advance never exceeds the number
\* of bytes in the buffer.
C22_IdrQuirk == [][C22_Step]_vars

\* the message and the CR LF behind it have been received, one Data has
\* just been posted and nothing is left in the buffer
C22_Witness ==
  /\ tx = <<MessageUnit(kIdrMessage), MessageUnit(<<13, 10>>)>>
  /\ wire = <<>>
  /\ posted = <<Note("Data", 1, FALSE, 0, 0, kIdrMessage)>>
  /\ mSessions[1].mInBuffer = <<>>

\* the sessions the dispatch loop has yet to come to, and those of them
\* whose socket is in rs or ws
Unvisited == {KeyAt(mSessions, i) : i \in 1..(IF pc = "visitw" THEN idx - 1 ELSE idx)}
UnvisitedReady == {k \in Unvisited : mSessions[k].mSocket \in rs \cup ws}

\* C23: in each dispatch pass every session in the map whose socket select
\* reported readable or writable is dispatched: the counter of remaining
\* readiness, decremented once for the pipe and once for each ready
\* session, never reaches zero while a ready session is unvisited, also
\* when a socket is both readable and writable and when a ready session
\* was destroyed during the wait.
C23_AllReadyDispatched ==
  Iterating => res >= Cardinality(UnvisitedReady) /\ (res <= 0 => UnvisitedReady = {})

\* a pass has come to its end with two sessions in the map, one of them
\* ready for reading and for writing, after a session that select had
\* reported ready was destroyed
C23_Witness ==
  /\ pc = "visit"
  /\ idx = 0
  /\ Cardinality(DOMAIN mSessions) = 2
  /\ \E k \in DOMAIN mSessions : mSessions[k].mSocket \in rs \cap ws
  /\ (rs \cup ws) \ ({mSessions[k].mSocket : k \in DOMAIN mSessions} \cup {mPipeFd[1]}) # {}

\* a sendRequest call (the step that records its arguments in req) on which
\* a CHECK of Session::sendRequest fails
SendRequestAsserts == ~req.made /\ req'.made /\ ~aborted /\ aborted'

\* C24: the state assertion at the top of Session::sendRequest holds for
\* every send_request call whose ID is in the map: send_request never
\* reaches a session that is still Connecting (one whose connect failed
\* included) or a listener.
C24_SendRequestState == [][~SendRequestAsserts]_vars

\* C25: no deadlock between control threads and the I/O thread: a control
\* call that holds the engine mutex while it writes its wake byte always
\* completes, even when the pipe is full.
C25_InterruptCompletes == (writer # NoWriter) ~> (writer = NoWriter)

====
